---- MODULE Spec2Model ----
(***************************************************************************)
(* A model of negotiator (xolox/python-negotiator): the length-prefixed    *)
(* JSON framing and the request/response protocol of NegotiatorInterface   *)
(* (negotiator_common), and the host daemon that keeps one worker process  *)
(* per available guest channel (negotiator_host).                          *)
(*                                                                         *)
(* Text is modelled as a sequence of one-character strings.  A byte stream *)
(* is a sequence of bytes: an ASCII character stands for its own byte and  *)
(* the two bytes of the UTF-8 encoding of U+00E9 are "xC3" and "xA9".      *)
(***************************************************************************)
EXTENDS Integers, Sequences, FiniteSets, TLC

VARIABLES
    \* ---- frame codec: one byte stream with a writer and a reader ----
    wire,        \* bytes written and not yet read
    eof,         \* TRUE once the writing side has closed the stream
    pending,     \* values whose frames are in the wire, oldest first
    clean,       \* TRUE while the wire holds only whole frames of write()
    lastWrite,   \* header and payload of the last write()
    lastRead,    \* what the last read() was expected to give and gave
    nput         \* writes on the stream so far

codecVars == <<wire, eof, pending, clean, lastWrite, lastRead, nput>>

VARIABLES
    \* ---- request/response: a caller endpoint and a serving endpoint ----
    c2s,         \* bytes from the caller to the server, not yet read
    s2c,         \* bytes from the server to the caller, not yet read
    c2sClosed,   \* TRUE once the caller has closed its side
    callerPc,    \* "idle", "waiting" (inside call_remote_method) or "closed"
    serverPc,    \* "serving", "ended" (ProtocolError) or "crashed"
    calls,       \* the requests call_remote_method has written, in order
    outcomes,    \* what each finished call read and how it ended, in order
    served       \* what enter_main_loop did with each request, in order

rpcVars == <<c2s, s2c, c2sClosed, callerPc, serverPc, calls, outcomes, served>>

VARIABLES
    \* ---- host daemon: worker processes against the available channels ----
    hostPc,             \* where HostDaemon.enter_main_loop is: "loop" (about
                        \* to call update_active_channels), "for" (inside its
                        \* for loop), "start" (between channel.start() and
                        \* the insertion into the dict), "returned" (it returned, time.sleep is
                        \* next), "crashed" (an exception left the loop) or
                        \* "exited" (termination signal)
    active_channels,    \* the daemon's dict, as a set of [key, pid]
    procs,              \* the worker processes created so far, by pid
    available_channels, \* the keys the update in progress found
    keys,               \* the keys its for loop has still to visit
    observed,           \* the host's situation at the last update
    ticks,              \* calls of update_active_channels so far
    new_channel,        \* pid of the worker that was started and is not in
                        \* the dict yet (0: none)
    raised,             \* the exception that left enter_main_loop
    unexposed,          \* the guests that some finished update saw running
                        \* without a guest-to-host channel
    at_begin,           \* the guests whose worker was dead and the number
                        \* of processes when the last update began
    ended               \* the last exception inside a worker and its pid

hostVars == <<hostPc, active_channels, procs, available_channels, keys,
              observed, ticks, new_channel, raised, unexposed, at_begin,
              ended>>

VARIABLES
    \* ---- commands: the two command directories and the last call ----
    user_commands,      \* USER_COMMANDS_DIRECTORY: [exists, entries]
    builtin_commands,   \* BUILTIN_COMMANDS_DIRECTORY: [exists, entries]
    constructed,        \* "no", "yes" or "raised": NegotiatorInterface.__init__
    last_call           \* the last list_commands() or execute() and its outcome

cmdVars == <<user_commands, builtin_commands, constructed, last_call>>

VARIABLES
    \* ---- guest: raw_readline of the guest agent and its helpers ----
    guestPc,            \* where the guest agent is in raw_readline
    helpers,            \* the WaitForRead processes that were started
    popen,              \* whether waiter.start() has set the waiter's _popen
    leaving,            \* what is under way in the finally clause and after
    sigterm,            \* the disposition of SIGTERM in the guest agent
    previous_handler,   \* GracefulShutdown.previous_handler
    disposition_before  \* the disposition when the scope was entered

guestVars == <<guestPc, helpers, popen, leaving, sigterm, previous_handler,
               disposition_before>>

VARIABLES
    \* ---- timeout: a command line action inside a TimeOut scope ----
    toPc,               \* where the action is: "enter", "schedule", a
                        \* position of the body, "cancel", "restore", "left"
    side,               \* "host" (Context) or "guest" (negotiator_guest.cli)
    num_seconds,        \* TimeOut.num_seconds
    alarm_left,         \* seconds until SIGALRM (0: no alarm is scheduled)
    sigalrm,            \* the disposition of SIGALRM
    fired_at,           \* where the action was when the alarm fired
    propagating,        \* the exception that is on its way out of the scope
    elapsed             \* seconds since the action began

timeoutVars == <<toPc, side, num_seconds, alarm_left, sigalrm, fired_at,
                 propagating, elapsed>>

VARIABLES
    \* ---- environment: the workers of the host daemon executing commands ----
    environ,            \* os.environ['NEGOTIATOR_GUEST'] of each worker process
    executing,          \* the workers that are inside execute(), after
                        \* prepare_environment() and before the command is spawned
    spawned             \* the commands spawned so far: the guest of the
                        \* channel and the NEGOTIATOR_GUEST the command saw

envVars == <<environ, executing, spawned>>

VARIABLES
    \* ---- guest startup: finding and opening the character device ----
    startPc,            \* "main" (before the device is known), "open" (about
                        \* to call open), "sleep" (inside time.sleep of
                        \* retry_open), "opened" (GuestAgent has its handle)
                        \* or "failed" (an exception reached the caller)
    python,             \* the major version of the interpreter: 2 or 3
    retry,              \* the retry argument of GuestAgent.__init__
    looked,             \* the call of find_character_device: the directory,
                        \* the port name and the result
    character_device,   \* the pathname given to GuestAgent
    attempts,           \* calls of open so far
    busy,               \* how many of them failed with EBUSY
    opened_at,          \* the call of open whose handle GuestAgent has
    surfaced            \* the exception that reached the caller

startVars == <<startPc, python, retry, looked, character_device, attempts,
               busy, opened_at, surfaced>>

VARIABLES
    \* ---- channel: GuestChannel.__init__ on a host ----
    channelPc,          \* "new" (not called), "connect" (the pathname is
                        \* known), "super" (connected, before
                        \* NegotiatorInterface.__init__), "connected" (the
                        \* constructor returned) or "raised"
    channel_host,       \* the channels directory of the host (in Hosts)
    channel_guest,      \* GuestChannel.guest_name
    detected,           \* TRUE when no unix_socket argument was given
    unix_socket,        \* the pathname the constructor connects to
    connect_result,     \* what socket.connect did: "none" (not called),
                        \* "accepted", "refused" or "error"
    peer,               \* the channel file the socket is connected to
    channel_raised,     \* the exception that left the constructor
    channels_made       \* the constructor calls that have ended

chanVars == <<channelPc, channel_host, channel_guest, detected, unix_socket,
              connect_result, peer, channel_raised, channels_made>>

VARIABLES
    \* ---- guest raw_readline and the character device it reads ----
    rlPc,               \* position of the guest agent in raw_readline: "call"
                        \* (not called), "read1" (line 92), "start" (121),
                        \* "setown" (123), "read2" (127), "join" (132),
                        \* "read3" (134), "finally" (139), "sleep" (143) or
                        \* "returned"
    device,             \* the virtio port: "disconnected" (a read returns
                        \* the empty string), "connected" (a read blocks) or
                        \* "line" (a line is readable)
    fd_owner,           \* the helper F_SETOWN names, 0 before the first call
    waiters,            \* the WaitForRead helpers started so far
    data,               \* the local variable data of raw_readline
    rl_leaving,         \* how the try block is being left: "none" or "break"
    arrived_at          \* rlPc at the moment the readable line arrived

wakeVars == <<rlPc, device, fd_owner, waiters, data, rl_leaving, arrived_at>>

VARIABLES
    \* ---- the single-file module negotiator_common.py: enter_main_loop ----
    lgPc,               \* "read" (enter_main_loop waits for a request),
                        \* "proxy" (fake_method waits for the response to the
                        \* request it wrote) or "raised" (an exception left
                        \* enter_main_loop)
    lg_in,              \* frames the peer wrote that have not been read
    lg_out,             \* frames written to the peer, oldest first
    lg_stack,           \* whose fake_method is waiting: "method" (the one
                        \* called in the try block), "send" (self.send) or
                        \* "none"
    lg_request,         \* command_name of the request read last, <<>> before
                        \* the first and for a frame without command
    lg_mark,            \* Len(lg_out) when that request was read
    lg_sent             \* the number of frames the peer has written

legacyVars == <<lgPc, lg_in, lg_out, lg_stack, lg_request, lg_mark, lg_sent>>

vars == <<codecVars, rpcVars, hostVars, cmdVars, guestVars, timeoutVars, envVars, startVars, chanVars, wakeVars, legacyVars>>

\* the variables an action of one part of the model leaves alone
exceptCodec ==
    <<rpcVars, hostVars, cmdVars, guestVars, timeoutVars, envVars, startVars, chanVars, wakeVars, legacyVars>>
exceptRpc ==
    <<codecVars, hostVars, cmdVars, guestVars, timeoutVars, envVars, startVars, chanVars, wakeVars, legacyVars>>
exceptHost ==
    <<codecVars, rpcVars, cmdVars, guestVars, timeoutVars, envVars, startVars, chanVars, wakeVars, legacyVars>>
exceptCommands ==
    <<codecVars, rpcVars, hostVars, guestVars, timeoutVars, envVars, startVars, chanVars, wakeVars, legacyVars>>
exceptGuest ==
    <<codecVars, rpcVars, hostVars, cmdVars, timeoutVars, envVars, startVars, chanVars, wakeVars, legacyVars>>
exceptTimeout ==
    <<codecVars, rpcVars, hostVars, cmdVars, guestVars, envVars, startVars, chanVars, wakeVars, legacyVars>>
exceptEnv ==
    <<codecVars, rpcVars, hostVars, cmdVars, guestVars, timeoutVars, startVars, chanVars, wakeVars, legacyVars>>
exceptStart ==
    <<codecVars, rpcVars, hostVars, cmdVars, guestVars, timeoutVars, envVars, chanVars, wakeVars, legacyVars>>
exceptChan ==
    <<codecVars, rpcVars, hostVars, cmdVars, guestVars, timeoutVars, envVars, startVars, wakeVars, legacyVars>>
exceptWake ==
    <<codecVars, rpcVars, hostVars, cmdVars, guestVars, timeoutVars, envVars, startVars, chanVars, legacyVars>>
exceptLegacy ==
    <<codecVars, rpcVars, hostVars, cmdVars, guestVars, timeoutVars, envVars, startVars, chanVars, wakeVars>>

-----------------------------------------------------------------------------
(* Bounds of the model.                                                    *)

\* most writes (of the writer and of the peer together) on the codec's stream
MaxPuts == 2

\* most calls the caller endpoint makes
MaxCalls == 2

\* most calls of update_active_channels the host daemon makes
MaxTicks == 2

\* most WaitForRead helpers the guest agent starts
MaxHelpers == 2

\* largest num_seconds of a TimeOut scope
MaxSeconds == 2

\* most commands the workers of the host daemon spawn
MaxSpawns == 3

\* most calls of open by one GuestAgent
MaxAttempts == 3

\* most GuestChannel objects constructed after the first
MaxChannels == 2

\* most frames the peer of the single-file module writes
MaxFrames == 3

-----------------------------------------------------------------------------
(* Characters and text.                                                    *)

Digits == <<"0", "1", "2", "3", "4", "5", "6", "7", "8", "9">>

IsDigitChar(c) == \E k \in 1..10 : Digits[k] = c

DigitVal(c) == (CHOOSE k \in 1..10 : Digits[k] = c) - 1

\* str.strip() strips these (the whitespace the model's streams can hold)
IsSpace(c) == c \in {" ", "\n"}

\* json.decoder.WHITESPACE
IsJsonWs(c) == c \in {" ", "\n"}

\* the one character of the model outside ASCII (U+00E9)
EAcute == "e'"

RECURSIVE Concat(_)
\* ''.join(parts)
Concat(parts) ==
    IF parts = <<>> THEN <<>> ELSE Head(parts) \o Concat(Tail(parts))

\* "%i" % n for n >= 0
RECURSIVE IntToStr(_)
IntToStr(n) ==
    IF n < 10 THEN <<Digits[n + 1]>>
    ELSE IntToStr(n \div 10) \o <<Digits[(n % 10) + 1]>>

\* int(line, 10) for a line of decimal digits
RECURSIVE StrToInt(_)
StrToInt(cs) ==
    IF cs = <<>> THEN 0
    ELSE 10 * StrToInt(SubSeq(cs, 1, Len(cs) - 1)) + DigitVal(cs[Len(cs)])

\* str.isdigit(): nonempty and every character a decimal digit
isdigit(cs) == cs # <<>> /\ \A k \in 1..Len(cs) : IsDigitChar(cs[k])

\* str.strip()
RECURSIVE lstrip(_)
lstrip(cs) ==
    IF cs # <<>> /\ IsSpace(Head(cs)) THEN lstrip(Tail(cs)) ELSE cs

RECURSIVE rstrip(_)
rstrip(cs) ==
    IF cs # <<>> /\ IsSpace(cs[Len(cs)])
    THEN rstrip(SubSeq(cs, 1, Len(cs) - 1)) ELSE cs

strip(cs) == rstrip(lstrip(cs))

\* the UTF-8 encoding of text: U+00E9 becomes two bytes, an ASCII
\* character one
Utf8Encode(cs) ==
    LET wide(k) == cs[k] = EAcute
        pos(k)  == k + Cardinality({j \in 1..(k - 1) : wide(j)})
        n       == Len(cs) + Cardinality({j \in 1..Len(cs) : wide(j)})
    IN  IF \A k \in 1..Len(cs) : ~wide(k) THEN cs
        ELSE [m \in 1..n |->
                LET k == CHOOSE k \in 1..Len(cs) :
                            pos(k) = m \/ (wide(k) /\ pos(k) + 1 = m)
                IN  IF ~wide(k) THEN cs[k]
                    ELSE IF pos(k) = m THEN "xC3" ELSE "xA9"]

\* bytes.decode('utf-8'): ok is FALSE for a malformed sequence, s is the text
Utf8Decode(bs) ==
    LET wellFormed ==
            \A k \in 1..Len(bs) :
               /\ bs[k] = "xC3" => (k < Len(bs) /\ bs[k + 1] = "xA9")
               /\ bs[k] = "xA9" => (k > 1 /\ bs[k - 1] = "xC3")
        lead == SelectSeq(bs, LAMBDA b : b # "xA9")
    IN  IF ~wellFormed THEN [ok |-> FALSE, s |-> <<>>]
        ELSE [ok |-> TRUE,
              s |-> [k \in 1..Len(lead) |->
                        IF lead[k] = "xC3" THEN EAcute ELSE lead[k]]]

-----------------------------------------------------------------------------
(* JSON values.  Every value is a record of the same shape, so that any    *)
(* two values can be compared: t is the type, b the boolean, n the number, *)
(* s the text of a string, a the elements of an array and o the members    *)
(* of an object, in iteration order, each [k |-> key text, v |-> value].   *)

JNull == [t |-> "null", b |-> FALSE, n |-> 0, s |-> <<>>, a |-> <<>>, o |-> <<>>]

JBool(x) == [t |-> "bool", b |-> x, n |-> 0, s |-> <<>>, a |-> <<>>, o |-> <<>>]

JInt(k) == [t |-> "int", b |-> FALSE, n |-> k, s |-> <<>>, a |-> <<>>, o |-> <<>>]

JStr(cs) == [t |-> "str", b |-> FALSE, n |-> 0, s |-> cs, a |-> <<>>, o |-> <<>>]

JArr(vs) == [t |-> "arr", b |-> FALSE, n |-> 0, s |-> <<>>, a |-> vs, o |-> <<>>]

JObj(ms) == [t |-> "obj", b |-> FALSE, n |-> 0, s |-> <<>>, a |-> <<>>, o |-> ms]

\* float('nan'), which json.loads gives for the text NaN
JNaN == [t |-> "nan", b |-> FALSE, n |-> 0, s |-> <<>>, a |-> <<>>, o |-> <<>>]

Member(key, value) == [k |-> key, v |-> value]

HasKey(obj, key) == \E i \in 1..Len(obj.o) : obj.o[i].k = key

\* dict[key]
Get(obj, key) == obj.o[CHOOSE i \in 1..Len(obj.o) : obj.o[i].k = key].v

\* dict.get(key): None for a missing key, whatever the default
GetOrNone(obj, key, default) == IF HasKey(obj, key) THEN Get(obj, key) ELSE JNull

\* dict.get(key, default)
GetOr(obj, key, default) == IF HasKey(obj, key) THEN Get(obj, key) ELSE default

\* dict[key] = value: a key already there keeps its place
SetKey(ms, key, value) ==
    IF \E i \in 1..Len(ms) : ms[i].k = key
    THEN [i \in 1..Len(ms) |-> IF ms[i].k = key THEN Member(key, value) ELSE ms[i]]
    ELSE Append(ms, Member(key, value))

\* structural equality: arrays by position, objects by key whatever the order
RECURSIVE JsonEq(_, _)
JsonEq(x, y) ==
    /\ x.t = y.t
    /\ x.b = y.b
    /\ x.n = y.n
    /\ x.s = y.s
    /\ Len(x.a) = Len(y.a)
    /\ \A i \in 1..Len(x.a) : JsonEq(x.a[i], y.a[i])
    /\ Len(x.o) = Len(y.o)
    /\ \A i \in 1..Len(x.o) :
          /\ HasKey(y, x.o[i].k)
          /\ JsonEq(x.o[i].v, Get(y, x.o[i].k))

-----------------------------------------------------------------------------
(* json.dumps(value) with its defaults: ensure_ascii=True and the item and *)
(* key separators ", " and ": ".                                           *)

Backslash == "\\"

Quote == "\""

\* json.encoder.ESCAPE (ensure_ascii=False): U+00E9 is written as it is
EscapeRaw(c) ==
    IF c = Quote THEN <<Backslash, Quote>>
    ELSE IF c = Backslash THEN <<Backslash, Backslash>>
    ELSE IF c = "\n" THEN <<Backslash, "n">>
    ELSE <<c>>

\* json.encoder.ESCAPE_ASCII applied to one character
EscapeAscii(c) ==
    IF c = Quote THEN <<Backslash, Quote>>
    ELSE IF c = Backslash THEN <<Backslash, Backslash>>
    ELSE IF c = "\n" THEN <<Backslash, "n">>
    ELSE IF c = EAcute THEN <<Backslash, "u", "0", "0", "e", "9">>
    ELSE <<c>>

\* json.encoder.py_encode_basestring_ascii
EncodeString(cs) ==
    <<Quote>> \o Concat([i \in 1..Len(cs) |-> EscapeAscii(cs[i])]) \o <<Quote>>

RECURSIVE JoinWith(_, _)
\* sep.join(parts)
JoinWith(parts, sep) ==
    IF parts = <<>> THEN <<>>
    ELSE IF Len(parts) = 1 THEN parts[1]
    ELSE parts[1] \o sep \o JoinWith(Tail(parts), sep)

\* the item separator of json.dumps(value, separators=(',', ':'))
ItemSeparatorCompact == <<",">>

ItemSeparator == <<",", " ">>

KeySeparator == <<":", " ">>

RECURSIVE JsonDumps(_)
JsonDumps(v) ==
    CASE v.t = "null" -> <<"n", "u", "l", "l">>
      [] v.t = "bool" -> IF v.b THEN <<"t", "r", "u", "e">>
                                ELSE <<"f", "a", "l", "s", "e">>
      [] v.t = "int"  -> IntToStr(v.n)
      [] v.t = "nan"  -> <<"N", "a", "N">>
      [] v.t = "str"  -> EncodeString(v.s)
      [] v.t = "arr"  ->
            <<"[">> \o JoinWith([i \in 1..Len(v.a) |-> JsonDumps(v.a[i])],
                                ItemSeparator) \o <<"]">>
      [] v.t = "obj"  ->
            <<"{">> \o JoinWith([i \in 1..Len(v.o) |->
                                    EncodeString(v.o[i].k) \o KeySeparator
                                        \o JsonDumps(v.o[i].v)],
                                ItemSeparator) \o <<"}">>

-----------------------------------------------------------------------------
(* json.loads(text): the pure-Python scanner of the json module, for the   *)
(* grammar the model's streams can hold (no fractions or exponents, and    *)
(* U+00E9 the only \u escape).  A parse gives [ok, v, i]: whether it     *)
(* succeeded, the value, and the index after the text consumed.            *)

Fail == [ok |-> FALSE, v |-> JNull, i |-> 0]

Parsed(value, next) == [ok |-> TRUE, v |-> value, i |-> next]

\* s[i:i+1] with indices from 1: "" past the end
At(cs, i) == IF i >= 1 /\ i <= Len(cs) THEN cs[i] ELSE ""

\* s[i:i+Len(word)] == word
StartsWithAt(cs, i, word) ==
    /\ i + Len(word) - 1 <= Len(cs)
    /\ \A k \in 1..Len(word) : cs[i + k - 1] = word[k]

RECURSIVE SkipWs(_, _)
\* WHITESPACE.match(s, i).end()
SkipWs(cs, i) == IF IsJsonWs(At(cs, i)) THEN SkipWs(cs, i + 1) ELSE i

RECURSIVE DigitsEnd(_, _)
\* the index after the run of decimal digits that starts at i
DigitsEnd(cs, i) == IF IsDigitChar(At(cs, i)) THEN DigitsEnd(cs, i + 1) ELSE i

\* NUMBER_RE.match(s, i): -?(0|[1-9][0-9]*)
ParseNumber(cs, i) ==
    LET neg   == At(cs, i) = "-"
        start == IF neg THEN i + 1 ELSE i
        end   == IF At(cs, start) = "0" THEN start + 1 ELSE DigitsEnd(cs, start)
        mag   == StrToInt(SubSeq(cs, start, end - 1))
    IN  IF end = start THEN Fail
        ELSE Parsed(JInt(IF neg THEN 0 - mag ELSE mag), end)

RECURSIVE ScanString(_, _, _)
\* py_scanstring(s, i, strict=True), i the index after the opening quote and
\* acc the text decoded so far; v.s of the result is the text
ScanString(cs, i, acc) ==
    LET c == At(cs, i)
    IN  IF c = "" THEN Fail                       \* unterminated string
        ELSE IF c = Quote THEN Parsed(JStr(acc), i + 1)
        ELSE IF c = "\n" THEN Fail                \* invalid control character
        ELSE IF c # Backslash THEN ScanString(cs, i + 1, Append(acc, c))
        ELSE LET esc == At(cs, i + 1)
             IN  IF esc = Quote THEN ScanString(cs, i + 2, Append(acc, Quote))
                 ELSE IF esc = Backslash
                 THEN ScanString(cs, i + 2, Append(acc, Backslash))
                 ELSE IF esc = "n" THEN ScanString(cs, i + 2, Append(acc, "\n"))
                 ELSE IF StartsWithAt(cs, i + 1, <<"u", "0", "0", "e", "9">>)
                 THEN ScanString(cs, i + 6, Append(acc, EAcute))
                 ELSE Fail                        \* invalid escape

RECURSIVE ScanOnce(_, _)
RECURSIVE ParseArrayItems(_, _, _)
RECURSIVE ParseObjectItems(_, _, _)

\* the loop of json.decoder.JSONArray: i is the index of the next value
ParseArrayItems(cs, i, acc) ==
    LET r == ScanOnce(cs, i)
    IN  IF ~r.ok THEN Fail
        ELSE LET j == SkipWs(cs, r.i)
                 c == At(cs, j)
             IN  IF c = "]" THEN Parsed(JArr(Append(acc, r.v)), j + 1)
                 ELSE IF c # "," THEN Fail
                 ELSE ParseArrayItems(cs, SkipWs(cs, j + 1), Append(acc, r.v))

\* json.decoder.JSONArray, i the index after the opening bracket
ParseArray(cs, i) ==
    LET j == SkipWs(cs, i)
    IN  IF At(cs, j) = "]" THEN Parsed(JArr(<<>>), j + 1)
        ELSE ParseArrayItems(cs, j, <<>>)

\* the loop of json.decoder.JSONObject: i is the index after the quote that
\* opens the next key
ParseObjectItems(cs, i, acc) ==
    LET key == ScanString(cs, i, <<>>)
    IN  IF ~key.ok THEN Fail
        ELSE LET j == SkipWs(cs, key.i)
             IN  IF At(cs, j) # ":" THEN Fail
                 ELSE LET r == ScanOnce(cs, SkipWs(cs, j + 1))
                      IN  IF ~r.ok THEN Fail
                          ELSE LET m == SkipWs(cs, r.i)
                                   c == At(cs, m)
                                   ms == SetKey(acc, key.v.s, r.v)
                               IN  IF c = "}" THEN Parsed(JObj(ms), m + 1)
                                   ELSE IF c # "," THEN Fail
                                   ELSE LET q == SkipWs(cs, m + 1)
                                        IN  IF At(cs, q) # Quote THEN Fail
                                            ELSE ParseObjectItems(cs, q + 1, ms)

\* json.decoder.JSONObject, i the index after the opening brace
ParseObject(cs, i) ==
    LET j == SkipWs(cs, i)
        c == At(cs, j)
    IN  IF c = "}" THEN Parsed(JObj(<<>>), j + 1)
        ELSE IF c # Quote THEN Fail
        ELSE ParseObjectItems(cs, j + 1, <<>>)

\* json.scanner.py_make_scanner._scan_once
ScanOnce(cs, i) ==
    LET c == At(cs, i)
    IN  IF c = "" THEN Fail
        ELSE IF c = Quote THEN ScanString(cs, i + 1, <<>>)
        ELSE IF c = "{" THEN ParseObject(cs, i + 1)
        ELSE IF c = "[" THEN ParseArray(cs, i + 1)
        ELSE IF StartsWithAt(cs, i, <<"n", "u", "l", "l">>)
        THEN Parsed(JNull, i + 4)
        ELSE IF StartsWithAt(cs, i, <<"t", "r", "u", "e">>)
        THEN Parsed(JBool(TRUE), i + 4)
        ELSE IF StartsWithAt(cs, i, <<"f", "a", "l", "s", "e">>)
        THEN Parsed(JBool(FALSE), i + 5)
        ELSE IF ParseNumber(cs, i).ok THEN ParseNumber(cs, i)
        ELSE IF StartsWithAt(cs, i, <<"N", "a", "N">>)
        THEN Parsed(JNaN, i + 3)
        ELSE Fail

\* json.loads(bytes): decode the bytes as UTF-8, parse one value and demand
\* that only whitespace follows it.  [ok, v]
JsonLoads(bs) ==
    LET text == Utf8Decode(bs)
        r    == ScanOnce(text.s, SkipWs(text.s, 1))
    IN  IF ~text.ok \/ ~r.ok THEN [ok |-> FALSE, v |-> JNull]
        ELSE IF SkipWs(text.s, r.i) # Len(text.s) + 1
        THEN [ok |-> FALSE, v |-> JNull]          \* extra data
        ELSE [ok |-> TRUE, v |-> r.v]

-----------------------------------------------------------------------------
(* The frame codec of NegotiatorInterface.  A stream is the sequence of    *)
(* bytes the handle still has to deliver.                                  *)

HasNewline(bs) == \E k \in 1..Len(bs) : bs[k] = "\n"

FirstNewline(bs) == CHOOSE k \in 1..Len(bs) : bs[k] = "\n" /\ \A j \in 1..(k - 1) : bs[j] # "\n"

\* conn_handle.readline(): the bytes up to and including the first newline,
\* or all that is left when the stream ends before one
raw_readline(bs) ==
    IF HasNewline(bs)
    THEN [data |-> SubSeq(bs, 1, FirstNewline(bs)),
          rest |-> SubSeq(bs, FirstNewline(bs) + 1, Len(bs))]
    ELSE [data |-> bs, rest |-> <<>>]

\* conn_handle.read(num_bytes): num_bytes bytes, or fewer when the stream ends
raw_read(bs, num_bytes) ==
    IF num_bytes <= Len(bs)
    THEN [data |-> SubSeq(bs, 1, num_bytes), rest |-> SubSeq(bs, num_bytes + 1, Len(bs))]
    ELSE [data |-> bs, rest |-> <<>>]

\* the outcome of read(): kind is "value" (v the decoded value) or
\* "ProtocolError" (why "header" with input the stripped line, or why "json"
\* with input the payload that did not parse); announced is the byte count of
\* the header, got the number of payload bytes read, rest the stream left
ReadOutcome(kind, why, input, v, announced, got, rest) ==
    [kind |-> kind, why |-> why, input |-> input, v |-> v,
     announced |-> announced, got |-> got, rest |-> rest]

\* NegotiatorInterface.read() on a stream whose bytes have all arrived
read(bs) ==
    LET l    == raw_readline(bs)
        line == strip(l.data)
    IN  IF ~isdigit(line)
        THEN ReadOutcome("ProtocolError", "header", line, JNull, 0, 0, l.rest)
        ELSE LET num_bytes     == StrToInt(line)
                 p             == raw_read(l.rest, num_bytes)
                 encoded_value == p.data
                 decoded       == JsonLoads(encoded_value)
             IN  IF decoded.ok
                 THEN ReadOutcome("value", "", <<>>, decoded.v,
                                  num_bytes, Len(encoded_value), p.rest)
                 ELSE ReadOutcome("ProtocolError", "json", encoded_value, JNull,
                                  num_bytes, Len(encoded_value), p.rest)

\* read() returns without waiting for more bytes: the stream has ended, or
\* the header line has arrived and is refused or has its payload behind it
ReadReady(bs, closed) ==
    \/ closed
    \/ /\ HasNewline(bs)
       /\ LET l    == raw_readline(bs)
              line == strip(l.data)
          IN  isdigit(line) => Len(l.rest) >= StrToInt(line)

\* the bytes NegotiatorInterface.write(value) hands to raw_write
write(value) ==
    LET encoded_message == JsonDumps(value)
        num_bytes       == Len(encoded_message)
    IN  Utf8Encode(IntToStr(num_bytes) \o <<"\n">> \o encoded_message)

-----------------------------------------------------------------------------
(* Texts of the protocol.                                                  *)

S_method == <<"m", "e", "t", "h", "o", "d">>

S_args == <<"a", "r", "g", "s">>

S_kw == <<"k", "w">>

S_success == <<"s", "u", "c", "c", "e", "s", "s">>

S_result == <<"r", "e", "s", "u", "l", "t">>

S_error == <<"e", "r", "r", "o", "r">>

S_ping == <<"p", "i", "n", "g">>

\* dict(method=method, args=args, kw=kw)
Request(method, args, kw) ==
    JObj(<<Member(S_method, JStr(method)), Member(S_args, JArr(args)),
           Member(S_kw, JObj(kw))>>)

\* dict(success=True, result=result)
Success(result) ==
    JObj(<<Member(S_success, JBool(TRUE)), Member(S_result, result)>>)

\* dict(success=False, error=error)
Failure(error) ==
    JObj(<<Member(S_success, JBool(FALSE)), Member(S_error, JStr(error))>>)

\* the request/response variables at rest, for the other specifications
RpcIdle ==
    /\ c2s = <<>>
    /\ s2c = <<>>
    /\ c2sClosed = FALSE
    /\ callerPc = "idle"
    /\ serverPc = "serving"
    /\ calls = <<>>
    /\ outcomes = <<>>
    /\ served = <<>>

\* HostDaemon.__init__: no channels yet, the main loop is about to start
HostIdle ==
    /\ hostPc = "loop"
    /\ active_channels = {}
    /\ procs = <<>>
    /\ available_channels = {}
    /\ keys = {}
    /\ observed = 0
    /\ ticks = 0
    /\ new_channel = 0
    /\ raised = "none"
    /\ unexposed = {}
    /\ at_begin = [dead |-> {}, nprocs |-> 0]
    /\ ended = [pid |-> 0, exc |-> "none"]

\* no endpoint constructed, both command directories there and empty
CommandsIdle ==
    /\ user_commands = [exists |-> TRUE, entries |-> <<>>]
    /\ builtin_commands = [exists |-> TRUE, entries |-> <<>>]
    /\ constructed = "no"
    /\ last_call = [op |-> "none", command |-> <<>>, argv |-> <<>>,
                    raised |-> "none", result |-> <<>>]

\* the guest agent has not called raw_readline yet
GuestIdle ==
    /\ guestPc = "idle"
    /\ helpers = <<>>
    /\ popen = FALSE
    /\ leaving = "none"
    /\ sigterm = "SIG_DFL"
    /\ previous_handler = "unset"
    /\ disposition_before = "SIG_DFL"

\* no command line action has begun
TimeoutIdle ==
    /\ toPc = "enter"
    /\ side = "host"
    /\ num_seconds = 0
    /\ alarm_left = 0
    /\ sigalrm = "SIG_DFL"
    /\ fired_at = "none"
    /\ propagating = "none"
    /\ elapsed = 0

\* no worker has executed a command
EnvIdle ==
    /\ environ = <<"unset", "unset", "unset">>
    /\ executing = {}
    /\ spawned = <<>>

\* the guest agent has not been started
StartIdle ==
    /\ startPc = "main"
    /\ python = 3
    /\ retry = FALSE
    /\ looked = [listing |-> 0, port_name |-> <<>>,
                 result |-> [raised |-> "none", character_device |-> <<>>]]
    /\ character_device = <<>>
    /\ attempts = 0
    /\ busy = 0
    /\ opened_at = 0
    /\ surfaced = [type |-> "none", errno |-> 0]

\* no GuestChannel has been constructed
ChanIdle ==
    /\ channelPc = "new"
    /\ channel_host = 0
    /\ channel_guest = <<>>
    /\ detected = FALSE
    /\ unix_socket = <<>>
    /\ connect_result = "none"
    /\ peer = 0
    /\ channel_raised = "none"
    /\ channels_made = 0

\* raw_readline of the guest agent has not been called on a device
WakeIdle ==
    /\ rlPc = "call"
    /\ device = "disconnected"
    /\ fd_owner = 0
    /\ waiters = <<>>
    /\ data = <<>>
    /\ rl_leaving = "none"
    /\ arrived_at = "none"

\* enter_main_loop of the single-file module has seen no frame
LegacyIdle ==
    /\ lgPc = "read"
    /\ lg_in = <<>>
    /\ lg_out = <<>>
    /\ lg_stack = "none"
    /\ lg_request = <<>>
    /\ lg_mark = 0
    /\ lg_sent = 0

S_list_commands ==
    <<"l", "i", "s", "t", "_", "c", "o", "m", "m", "a", "n", "d", "s">>

S_execute ==
    <<"e", "x", "e", "c", "u", "t", "e">>

S_prepare_environment ==
    <<"p", "r", "e", "p", "a", "r", "e", "_", "e", "n", "v", "i", "r", "o",
      "n", "m", "e", "n", "t">>

S_write ==
    <<"w", "r", "i", "t", "e">>

S_conn_label ==
    <<"c", "o", "n", "n", "_", "l", "a", "b", "e", "l">>

S_private ==
    <<"_", "p", "r", "i", "v", "a", "t", "e">>

S_init ==
    <<"_", "_", "i", "n", "i", "t", "_", "_">>

S_nosuch ==
    <<"n", "o", "s", "u", "c", "h">>

S_Method ==
    <<"M", "e", "t", "h", "o", "d", " ">>

S_not_supported ==
    <<" ", "n", "o", "t", " ", "s", "u", "p", "p", "o", "r", "t", "e", "d">>

S_IndexError ==
    <<"t", "u", "p", "l", "e", " ", "i", "n", "d", "e", "x", " ", "o", "u",
      "t", " ", "o", "f", " ", "r", "a", "n", "g", "e">>

S_NotCallable ==
    <<"'", "s", "t", "r", "'", " ", "o", "b", "j", "e", "c", "t", " ", "i",
      "s", " ", "n", "o", "t", " ", "c", "a", "l", "l", "a", "b", "l", "e">>

S_TypeError ==
    <<"T", "y", "p", "e", "E", "r", "r", "o", "r">>

S_CommandFailed ==
    <<"E", "x", "t", "e", "r", "n", "a", "l", " ", "c", "o", "m", "m", "a",
      "n", "d", " ", "f", "a", "i", "l", "e", "d">>

S_alpha ==
    <<"a", "l", "p", "h", "a">>

S_output ==
    <<"o", "k", "\n">>

-----------------------------------------------------------------------------
(* The codec specification: one byte stream, a writer that calls write(),  *)
(* a peer that may also put bytes of its own on the stream and close it,   *)
(* and a reader that calls read().                                         *)

\* the values handed to write()
JsonValues ==
    << JNull, JBool(TRUE), JInt(0), JInt(42), JStr(<<>>),
       JStr(<<"a", EAcute>>), JStr(<<Quote, Backslash, "\n", " ">>),
       JArr(<<>>), JArr(<<JInt(7), JStr(<<"x">>), JArr(<<JNull>>)>>),
       JObj(<<>>), JObj(<<Member(<<"k">>, JBool(FALSE)), Member(<<EAcute>>, JInt(10))>>),
       Request(S_ping, <<>>, <<>>), Success(JArr(<<JStr(<<"b">>)>>)) >>

\* byte strings a peer puts on the stream without write()
RawChunks ==
    << <<"a", "b", "c", "\n", "{", "}">>,
       <<"5", "\n", "n", "o", "t", "j", "s">>,
       <<"5", "\n", "1", "2">>,
       <<"2", "\n", "{", "}">>,
       <<" ", "2", " ", "\n", "[", "]">>,
       <<"\n">>,
       <<"3", "\n", "N", "a", "N">>,
       <<"4", "\n", Quote, "xC3", "xA9", Quote>>,
       <<"1", "\n", "xA9">>,
       <<"2", "\n", "1", "2", "3">>,
       <<"0", "3", "\n", " ", "7", " ">>,
       <<"7">> >>

NoWrite == <<>>

NoRead ==
    [done |-> FALSE, expected |-> FALSE, want |-> JNull, atEof |-> FALSE,
     out |-> ReadOutcome("", "", <<>>, JNull, 0, 0, <<>>)]

CodecIdle ==
    /\ wire = <<>>
    /\ eof = FALSE
    /\ pending = <<>>
    /\ clean = TRUE
    /\ lastWrite = NoWrite
    /\ lastRead = NoRead
    /\ nput = 0

CodecInit ==
    /\ CodecIdle
    /\ RpcIdle
    /\ HostIdle
    /\ CommandsIdle
    /\ GuestIdle
    /\ TimeoutIdle
    /\ EnvIdle
    /\ StartIdle
    /\ ChanIdle
    /\ WakeIdle
    /\ LegacyIdle

\* endpoint.write(JsonValues[i])
CodecWrite(i) ==
    LET frame == write(JsonValues[i])
    IN  /\ ~eof
        /\ nput < MaxPuts
        /\ nput' = nput + 1
        /\ wire' = wire \o frame
        /\ pending' = Append(pending, JsonValues[i])
        /\ lastWrite' = frame
        /\ UNCHANGED <<eof, clean, lastRead, exceptCodec>>

\* the peer writes RawChunks[i] on the stream
CodecInject(i) ==
    /\ ~eof
    /\ nput < MaxPuts
    /\ nput' = nput + 1
    /\ wire' = wire \o RawChunks[i]
    /\ clean' = FALSE
    /\ UNCHANGED <<eof, pending, lastWrite, lastRead, exceptCodec>>

\* the writing side closes the stream
CodecClose ==
    /\ ~eof
    /\ eof' = TRUE
    /\ UNCHANGED <<wire, pending, clean, lastWrite, lastRead, nput, exceptCodec>>

\* endpoint.read() on the reading side
CodecRead ==
    LET out   == read(wire)
        whole == clean /\ pending # <<>>
    IN  /\ ReadReady(wire, eof)
        /\ wire' = out.rest
        /\ lastRead' = [done |-> TRUE, expected |-> whole,
                        want |-> IF whole THEN Head(pending) ELSE JNull,
                        atEof |-> eof, out |-> out]
        /\ pending' = IF whole /\ out.rest # <<>> THEN Tail(pending) ELSE <<>>
        /\ clean' = (clean \/ out.rest = <<>>)
        /\ UNCHANGED <<eof, lastWrite, nput, exceptCodec>>

CodecNext ==
    \/ \E i \in 1..Len(JsonValues) : CodecWrite(i)
    \/ \E i \in 1..Len(RawChunks) : CodecInject(i)
    \/ CodecClose
    \/ CodecRead

SpecCodec == CodecInit /\ [][CodecNext]_vars

\* the header line of a frame, without its newline, and the payload behind it
FrameHeader(frame) ==
    LET l == raw_readline(frame) IN SubSeq(l.data, 1, Len(l.data) - 1)

FramePayload(frame) == raw_readline(frame).rest

\* C1: round-trip framing.  The decimal header line that write() emits is
\* the byte length of the payload that follows it, and a read() of a stream
\* that holds only frames of write() returns a value structurally equal to
\* the value written first.
C1_RoundTripFraming ==
    /\ lastWrite # NoWrite =>
          /\ isdigit(FrameHeader(lastWrite))
          /\ StrToInt(FrameHeader(lastWrite)) = Len(FramePayload(lastWrite))
    /\ (lastRead.done /\ lastRead.expected) =>
          /\ lastRead.out.kind = "value"
          /\ JsonEq(lastRead.out.v, lastRead.want)

\* a string with a character outside ASCII, a quote, a backslash and a
\* newline has been written and read back
C1_Witness ==
    /\ lastRead.done
    /\ lastRead.expected
    /\ lastRead.want \in {JsonValues[6], JsonValues[7]}
    /\ lastRead.out.kind = "value"

\* the frame of the request "ping" without arguments, as json.dumps with
\* its default separators gives it
PingFrame ==
    <<"4", "0", "\n", "{", "\"", "m", "e", "t", "h", "o", "d", "\"", ":",
      " ", "\"", "p", "i", "n", "g", "\"", ",", " ", "\"", "a", "r", "g",
      "s", "\"", ":", " ", "[", "]", ",", " ", "\"", "k", "w", "\"", ":",
      " ", "{", "}", "}">>

\* the same request without whitespace between the tokens, under a header
\* of 33
PingFrameCompact33 ==
    <<"3", "3", "\n", "{", "\"", "m", "e", "t", "h", "o", "d", "\"", ":",
      "\"", "p", "i", "n", "g", "\"", ",", "\"", "a", "r", "g", "s", "\"",
      ":", "[", "]", ",", "\"", "k", "w", "\"", ":", "{", "}", "}">>

C2_ValueOrProtocolError ==
    lastRead.done =>
       /\ lastRead.out.kind \in {"value", "ProtocolError"}
       /\ lastRead.out.kind = "value" =>
             lastRead.out.got = lastRead.out.announced
       /\ lastRead.out.got < lastRead.out.announced =>
             /\ lastRead.out.kind = "ProtocolError"
             /\ lastRead.out.why = "json"

-----------------------------------------------------------------------------
(* The serving endpoint: NegotiatorInterface.enter_main_loop.              *)

\* getattr(self, name, None) on the endpoint object: "method" for a bound
\* method, "data" for a data attribute, "none" when there is no such
\* attribute.  The names are those the model's requests use.
Attr(name) ==
    IF name \in {S_list_commands, S_execute, S_prepare_environment, S_write, S_init}
    THEN "method"
    ELSE IF name = S_conn_label THEN "data"
    ELSE "none"

\* the methods the protocol exposes to the remote side
ExposedMethods == {S_list_commands, S_execute}

\* method_name.startswith('_')
StartsWithUnderscore(name) == name # <<>> /\ name[1] = "_"

\* the test that guards the call of a local method, without the test of the name
DispatchableAnyName(name) == Attr(name) # "none"

\* "if method and not method_name.startswith('_')"
Dispatchable(name) == Attr(name) # "none" /\ ~StartsWithUnderscore(name)

\* what a call of a local method does: whether it raised, str() of the
\* exception, the value returned, and the bytes it wrote on the handle
Returned(value, bytes) == [raised |-> FALSE, msg |-> <<>>, result |-> value, written |-> bytes]

Raised(text) == [raised |-> TRUE, msg |-> text, result |-> JNull, written |-> <<>>]

\* method(*args, **kw) for the attribute called name; commandOk says whether
\* the external command of execute() exits with status zero.  The wording of
\* the interpreter's TypeError for a wrong number of arguments is not modelled.
CallMethod(name, args, kw, commandOk) ==
    IF args.t # "arr" \/ kw.t # "obj" THEN Raised(S_TypeError)
    ELSE IF Attr(name) = "data" THEN Raised(S_NotCallable)
    ELSE IF name = S_list_commands
    THEN IF args.a # <<>> \/ kw.o # <<>> THEN Raised(S_TypeError)
         ELSE Returned(JArr(<<JStr(S_alpha)>>), <<>>)
    ELSE IF name = S_execute
    THEN IF args.a = <<>> THEN Raised(S_IndexError)
         ELSE IF commandOk THEN Returned(JStr(S_output), <<>>)
         ELSE Raised(S_CommandFailed)
    ELSE IF name = S_prepare_environment
    THEN IF args.a # <<>> \/ kw.o # <<>> THEN Raised(S_TypeError)
         ELSE Returned(JNull, <<>>)
    ELSE IF name = S_write
    THEN IF Len(args.a) # 1 \/ kw.o # <<>> THEN Raised(S_TypeError)
         ELSE Returned(JNull, write(args.a[1]))
    ELSE Raised(S_TypeError)

\* the error path of the loop without the write of a response: the
\* exception of the local method leaves the loop
HandleRaiseUncaught(call) ==
    IF call.raised
    THEN [frames |-> call.written, response |-> JNull, pc |-> "crashed"]
    ELSE [frames |-> call.written \o write(Success(call.result)),
          response |-> Success(call.result), pc |-> "serving"]

\* the try statement around the call of the local method: the bytes put on
\* the handle, the response written last, and where the loop is afterwards
HandleCall(call) ==
    IF call.raised
    THEN [frames |-> call.written \o write(Failure(call.msg)),
          response |-> Failure(call.msg), pc |-> "serving"]
    ELSE [frames |-> call.written \o write(Success(call.result)),
          response |-> Success(call.result), pc |-> "serving"]

\* one pass of the loop of enter_main_loop for a request that was read
\* (a JSON value): the entry of served it gives
ServeRequest(request, commandOk) ==
    IF request.t # "obj" \/ GetOr(request, S_method, JNull).t # "str"
    THEN \* request.get or getattr raises outside the try statement
         [name |-> <<>>, known |-> FALSE, invoked |-> FALSE, raised |-> FALSE,
          msg |-> <<>>, frames |-> <<>>, response |-> JNull, pc |-> "crashed"]
    ELSE LET method_name == Get(request, S_method).s
             args == GetOr(request, S_args, JArr(<<>>))
             kw   == GetOr(request, S_kw, JObj(<<>>))
         IN  IF Dispatchable(method_name)
             THEN LET call == CallMethod(method_name, args, kw, commandOk)
                      h    == HandleCall(call)
                  IN  [name |-> method_name, known |-> TRUE, invoked |-> TRUE,
                       raised |-> call.raised, msg |-> call.msg,
                       frames |-> h.frames, response |-> h.response, pc |-> h.pc]
             ELSE LET error == S_Method \o method_name \o S_not_supported
                  IN  [name |-> method_name, known |-> TRUE, invoked |-> FALSE,
                       raised |-> FALSE, msg |-> <<>>,
                       frames |-> write(Failure(error)),
                       response |-> Failure(error), pc |-> "serving"]

-----------------------------------------------------------------------------
(* The calling endpoint: NegotiatorInterface.call_remote_method.           *)

\* the truth value of a JSON value in an if statement
Truthy(v) ==
    CASE v.t = "null" -> FALSE
      [] v.t = "bool" -> v.b
      [] v.t = "int"  -> v.n # 0
      [] v.t = "str"  -> v.s # <<>>
      [] v.t = "arr"  -> v.a # <<>>
      [] v.t = "obj"  -> v.o # <<>>
      [] OTHER        -> TRUE

\* how a call ends: kind "return" (v the value returned), "RemoteMethodFailed"
\* (v the error carried) or the name of another exception
Outcome(kind, v) == [kind |-> kind, v |-> v]

\* a mapping of the response that ignores the success flag
CallOutcomeIgnoringSuccess(out) ==
    IF out.kind = "ProtocolError" THEN Outcome("ProtocolError", JNull)
    ELSE IF out.v.t # "obj" THEN Outcome("TypeError", JNull)
    ELSE IF ~HasKey(out.v, S_result) THEN Outcome("KeyError", JNull)
    ELSE Outcome("return", Get(out.v, S_result))

\* the part of call_remote_method after self.read(): out is what read() gave
CallOutcome(out) ==
    IF out.kind = "ProtocolError" THEN Outcome("ProtocolError", JNull)
    ELSE LET response == out.v
         IN  IF response.t # "obj" THEN Outcome("TypeError", JNull)
             ELSE IF ~HasKey(response, S_success) THEN Outcome("KeyError", JNull)
             ELSE IF Truthy(Get(response, S_success))
             THEN IF HasKey(response, S_result)
                  THEN Outcome("return", Get(response, S_result))
                  ELSE Outcome("KeyError", JNull)
             ELSE IF HasKey(response, S_error)
                  THEN Outcome("RemoteMethodFailed", Get(response, S_error))
                  ELSE Outcome("KeyError", JNull)

\* call_remote_method may start while another call of the endpoint waits
CallMayStartPipelined == callerPc \in {"idle", "waiting"}

\* call_remote_method writes its request and then reads the response before
\* it returns: the next call starts only after that
CallMayStart == callerPc = "idle"

\* the calls the caller makes: method, positional and keyword arguments
Calls ==
    << [method |-> S_list_commands, args |-> <<>>, kw |-> <<>>],
       [method |-> S_execute, args |-> <<JStr(<<"x">>)>>, kw |-> <<>>],
       [method |-> S_execute, args |-> <<>>, kw |-> <<>>],
       [method |-> S_prepare_environment, args |-> <<>>, kw |-> <<>>],
       [method |-> S_write, args |-> <<Success(JInt(1))>>, kw |-> <<>>],
       [method |-> S_write, args |-> <<Failure(<<"x">>)>>, kw |-> <<>>],
       [method |-> S_conn_label, args |-> <<>>, kw |-> <<>>],
       [method |-> S_private, args |-> <<>>, kw |-> <<>>],
       [method |-> S_init, args |-> <<>>, kw |-> <<>>],
       [method |-> <<>>, args |-> <<>>, kw |-> <<>>],
       [method |-> S_nosuch, args |-> <<JInt(1)>>, kw |-> <<>>] >>

RpcInit ==
    /\ RpcIdle
    /\ CodecIdle
    /\ HostIdle
    /\ CommandsIdle
    /\ GuestIdle
    /\ TimeoutIdle
    /\ EnvIdle
    /\ StartIdle
    /\ ChanIdle
    /\ WakeIdle
    /\ LegacyIdle

\* call_remote_method(Calls[i]) up to the read of the response
Call(i) ==
    LET request == Request(Calls[i].method, Calls[i].args, Calls[i].kw)
    IN  /\ CallMayStart
        /\ callerPc # "closed"
        /\ Len(calls) < MaxCalls
        /\ c2s' = c2s \o write(request)
        /\ calls' = Append(calls, request)
        /\ callerPc' = "waiting"
        /\ UNCHANGED <<s2c, c2sClosed, serverPc, outcomes, served, exceptRpc>>

\* call_remote_method from the read of the response to its end
CallReturn ==
    LET out == read(s2c)
    IN  /\ callerPc = "waiting"
        /\ Len(outcomes) < Len(calls)
        /\ ReadReady(s2c, serverPc # "serving")
        /\ s2c' = out.rest
        /\ outcomes' = Append(outcomes, [got |-> out.v, kind |-> CallOutcome(out).kind,
                                         v |-> CallOutcome(out).v])
        /\ callerPc' = IF Len(outcomes') = Len(calls) THEN "idle" ELSE callerPc
        /\ UNCHANGED <<c2s, c2sClosed, serverPc, calls, served, exceptRpc>>

\* the caller closes its side of the channel
CallerClose ==
    /\ callerPc = "idle"
    /\ callerPc' = "closed"
    /\ c2sClosed' = TRUE
    /\ UNCHANGED <<c2s, s2c, serverPc, calls, outcomes, served, exceptRpc>>

\* one pass of the loop of enter_main_loop
Serve ==
    /\ serverPc = "serving"
    /\ ReadReady(c2s, c2sClosed)
    /\ LET out == read(c2s)
       IN  /\ c2s' = out.rest
           /\ IF out.kind = "ProtocolError"
              THEN /\ serverPc' = "ended"
                   /\ UNCHANGED <<s2c, served>>
              ELSE \E commandOk \in BOOLEAN :
                      LET r == ServeRequest(out.v, commandOk)
                      IN  /\ s2c' = s2c \o r.frames
                          /\ served' = Append(served, [request |-> out.v] @@ r)
                          /\ serverPc' = r.pc
    /\ UNCHANGED <<c2sClosed, callerPc, calls, outcomes, exceptRpc>>

RpcNext ==
    \/ \E i \in 1..Len(Calls) : Call(i)
    \/ CallReturn
    \/ CallerClose
    \/ Serve

SpecRpc == RpcInit /\ [][RpcNext]_vars

-----------------------------------------------------------------------------
(* Properties of the request/response protocol (SpecRpc).                  *)

NotSupported(name) == Failure(S_Method \o name \o S_not_supported)

\* C3: dispatch exclusion.  Every request whose method name is empty,
\* begins with an underscore or is not one of the exposed methods is
\* answered with {success: false, error: "Method <name> not supported"}.
C3_DispatchExclusion ==
    \A k \in 1..Len(served) :
       (/\ served[k].known
        /\ \/ served[k].name = <<>>
           \/ StartsWithUnderscore(served[k].name)
           \/ served[k].name \notin ExposedMethods)
       => /\ served[k].response = NotSupported(served[k].name)
          /\ served[k].frames = write(NotSupported(served[k].name))

\* C4: privacy boundary.  Over any sequence of requests enter_main_loop
\* never invokes an attribute whose name begins with an underscore.
C4_PrivacyBoundary ==
    \A k \in 1..Len(served) :
       served[k].invoked => ~StartsWithUnderscore(served[k].name)

\* a request that names __init__, an attribute the endpoint has, was refused
C4_Witness ==
    \E k \in 1..Len(served) :
       /\ served[k].name = S_init
       /\ ~served[k].invoked
       /\ served[k].response = NotSupported(S_init)

\* C5: error containment.  When a dispatched method raises, the loop writes
\* {success: false, error: <str of the exception>} and keeps serving: the
\* next request on the endpoint is answered too.
C5_ErrorContainment ==
    \A k \in 1..Len(served) :
       served[k].raised =>
          /\ served[k].invoked
          /\ served[k].response = Failure(served[k].msg)
          /\ served[k].pc = "serving"
          /\ k < Len(served) => served[k + 1].frames # <<>>
          /\ k = Len(served) => serverPc \in {"serving", "ended"}
          /\ (k = Len(served) /\ ~c2sClosed) => serverPc = "serving"

\* a command of execute failed, and the request after it was answered
C5_Witness ==
    \E k \in 1..Len(served) :
       /\ served[k].raised
       /\ served[k].msg = S_CommandFailed
       /\ k < Len(served)
       /\ served[k + 1].frames # <<>>
       /\ Len(outcomes) > k

\* a well-formed response: success, with result when true and error when false
IsResponse(f) ==
    /\ f.t = "obj"
    /\ HasKey(f, S_success)
    /\ Get(f, S_success).t = "bool"
    /\ IF Get(f, S_success).b THEN HasKey(f, S_result)
       ELSE HasKey(f, S_error) /\ Get(f, S_error).t = "str"

C7_OneInFlight ==
    /\ Len(calls) - Len(outcomes) \in {0, 1}
    /\ (Len(calls) - Len(outcomes) = 1) <=> (callerPc = "waiting")

\* the second request is in flight after the first response was read
C7_Witness ==
    /\ Len(calls) = 2
    /\ Len(outcomes) = 1
    /\ callerPc = "waiting"

\* C8: request/response pairs are FIFO: the k-th call ends with the outcome
\* the server produced for the k-th request.
C8_Fifo ==
    \A k \in 1..Len(outcomes) :
       /\ k <= Len(served)
       /\ outcomes[k].got = served[k].response

-----------------------------------------------------------------------------
(* The host daemon (negotiator_host): what the host looks like.            *)
(*                                                                         *)
(* A situation is the state of the host at one update: its guests as       *)
(* libvirt knows them and the channel files below the channels directory,  *)
(* in the order os.walk delivers them.  Pathnames are relative to the      *)
(* channels directory.                                                     *)

GUEST_TO_HOST_CHANNEL_NAME ==
    <<"n", "e", "g", "o", "t", "i", "a", "t", "o", "r", "-", "g", "u", "e",
      "s", "t", "-", "t", "o", "-", "h", "o", "s", "t", ".", "0">>

HOST_TO_GUEST_CHANNEL_NAME ==
    <<"n", "e", "g", "o", "t", "i", "a", "t", "o", "r", "-", "h", "o", "s",
      "t", "-", "t", "o", "-", "g", "u", "e", "s", "t", ".", "0">>

\* os.path.basename(CHANNELS_DIRECTORY)
S_target == <<"t", "a", "r", "g", "e", "t">>

S_domain == <<"d", "o", "m", "a", "i", "n", "-">>

S_running == <<"r", "u", "n", "n", "i", "n", "g">>

S_shut_off == <<"s", "h", "u", "t", " ", "o", "f", "f">>

\* guest names
G_a == <<"a">>
G_b == <<"b">>
G_1a == <<"1", "-", "a">>
G_wb == <<"w", "-", "b">>

StartsWith(s, prefix) ==
    /\ Len(s) >= Len(prefix)
    /\ SubSeq(s, 1, Len(prefix)) = prefix

EndsWith(s, suffix) ==
    /\ Len(s) >= Len(suffix)
    /\ SubSeq(s, Len(s) - Len(suffix) + 1, Len(s)) = suffix

\* os.path.join(root, filename); the channels directory itself is <<>>
PathJoin(root, filename) ==
    IF root = <<>> THEN filename ELSE root \o <<"/">> \o filename

\* os.path.basename(root)
Basename(root) == IF root = <<>> THEN S_target ELSE root

\* the file libvirt creates for a channel of a guest: GUEST.CHANNEL in the
\* channels directory (Ubuntu 12.04, 14.04), domain-GUEST/CHANNEL (16.04) or
\* domain-ID-GUEST/CHANNEL (18.04)
ChannelFile(f) ==
    LET name == IF f.channel = "guest-to-host"
                THEN GUEST_TO_HOST_CHANNEL_NAME
                ELSE HOST_TO_GUEST_CHANNEL_NAME
    IN  [root |-> CASE f.layout = "12.04" -> <<>>
                    [] f.layout = "16.04" -> S_domain \o f.guest
                    [] f.layout = "18.04" ->
                          S_domain \o IntToStr(f.id) \o <<"-">> \o f.guest,
         filename |-> IF f.layout = "12.04"
                      THEN f.guest \o <<".">> \o name
                      ELSE name,
         is_socket |-> f.is_socket]

\* what os.walk(directory) delivers, file by file
Walk(situation) ==
    [k \in 1..Len(situation.files) |-> ChannelFile(situation.files[k])]

\* a line of `virsh --quiet list --all': id (or "-"), name and state
VirshLine(g) ==
    <<" ">> \o (IF g.running THEN IntToStr(g.id) ELSE <<"-">>)
            \o <<" ", " ", " ">> \o g.name
            \o <<" ", " ", " ">> \o (IF g.running THEN S_running ELSE S_shut_off)

VirshOutput(situation) ==
    [k \in 1..Len(situation.guests) |-> VirshLine(situation.guests[k])]

Guest(name, id, running) == [name |-> name, id |-> id, running |-> running]

File(guest, layout, id, channel, is_socket) ==
    [guest |-> guest, layout |-> layout, id |-> id, channel |-> channel,
     is_socket |-> is_socket]

G2H(guest, layout, id) == File(guest, layout, id, "guest-to-host", TRUE)

Situation(guests, files) == [guests |-> guests, files |-> files]

Situations ==
    << \* 1: no guests
       Situation(<<>>, <<>>),
       \* 2: one running guest, 14.04 layout
       Situation(<<Guest(G_a, 1, TRUE)>>, <<G2H(G_a, "12.04", 0)>>),
       \* 3: two running guests, 18.04 layout
       Situation(<<Guest(G_a, 1, TRUE), Guest(G_b, 2, TRUE)>>,
                 <<G2H(G_a, "18.04", 1), G2H(G_b, "18.04", 2)>>),
       \* 4: guest a restarted with a new domain id, guest b gone
       Situation(<<Guest(G_a, 3, TRUE)>>, <<G2H(G_a, "18.04", 3)>>),
       \* 5: the socket of a guest that is shut off, after a running one
       Situation(<<Guest(G_a, 1, TRUE), Guest(G_b, 0, FALSE)>>,
                 <<G2H(G_a, "12.04", 0), G2H(G_b, "12.04", 0)>>),
       \* 6: the same files walked in the other order
       Situation(<<Guest(G_a, 1, TRUE), Guest(G_b, 0, FALSE)>>,
                 <<G2H(G_b, "12.04", 0), G2H(G_a, "12.04", 0)>>),
       \* 7: three running guests: one with the guest-to-host channel, one
       \*    with only the host-to-guest channel, one whose channel file is
       \*    not a socket
       Situation(<<Guest(G_a, 1, TRUE), Guest(G_b, 2, TRUE),
                   Guest(G_wb, 3, TRUE)>>,
                 <<G2H(G_a, "12.04", 0),
                   File(G_b, "12.04", 0, "host-to-guest", TRUE),
                   File(G_wb, "12.04", 0, "guest-to-host", FALSE)>>),
       \* 8: a guest with a hyphen in its name, 18.04 layout
       Situation(<<Guest(G_wb, 2, TRUE)>>, <<G2H(G_wb, "18.04", 2)>>),
       \* 9: the same guest, 16.04 layout
       Situation(<<Guest(G_wb, 2, TRUE)>>, <<G2H(G_wb, "16.04", 0)>>),
       \* 10: guests b and 1-a, 16.04 layout
       Situation(<<Guest(G_b, 2, TRUE), Guest(G_1a, 3, TRUE)>>,
                 <<G2H(G_b, "16.04", 0), G2H(G_1a, "16.04", 0)>>),
       \* 11: guests a and 1-a, 16.04 layout; a has only the host-to-guest
       \*     channel
       Situation(<<Guest(G_a, 1, TRUE), Guest(G_1a, 3, TRUE)>>,
                 <<File(G_a, "16.04", 0, "host-to-guest", TRUE),
                   G2H(G_1a, "16.04", 0)>>),
       \* 12: guest b alone, 16.04 layout
       Situation(<<Guest(G_b, 2, TRUE)>>, <<G2H(G_b, "16.04", 0)>>) >>

-----------------------------------------------------------------------------
(* The host daemon: find_running_guests and find_available_channels.       *)

RECURSIVE SkipSpaces(_, _)
SkipSpaces(s, i) ==
    IF i <= Len(s) /\ IsSpace(s[i]) THEN SkipSpaces(s, i + 1) ELSE i

RECURSIVE WordEnd(_, _)
WordEnd(s, i) ==
    IF i <= Len(s) /\ ~IsSpace(s[i]) THEN WordEnd(s, i + 1) ELSE i

\* line.split(None, 2): at most three fields, the third is the rest of the
\* line with whatever whitespace ends it
split(line) ==
    LET a == SkipSpaces(line, 1)
        b == WordEnd(line, a)
        c == SkipSpaces(line, b)
        d == WordEnd(line, c)
        e == SkipSpaces(line, d)
    IN  IF a > Len(line) THEN <<>>
        ELSE IF c > Len(line) THEN <<SubSeq(line, a, b - 1)>>
        ELSE IF e > Len(line)
             THEN <<SubSeq(line, a, b - 1), SubSeq(line, c, d - 1)>>
        ELSE <<SubSeq(line, a, b - 1), SubSeq(line, c, d - 1),
               SubSeq(line, e, Len(line))>>

InDict(ms, key) == \E i \in 1..Len(ms) : ms[i].k = key

DictGet(ms, key) == ms[CHOOSE i \in 1..Len(ms) : ms[i].k = key].v

\* dict(find_running_guests()): guest name -> domain id of the lines that
\* have three fields, a decimal id and the state "running"; a line that does
\* not unpack into three fields is logged and passed over
RECURSIVE find_running_guests(_)
find_running_guests(output) ==
    IF output = <<>> THEN <<>>
    ELSE LET fields == split(output[Len(output)])
             before == find_running_guests(SubSeq(output, 1, Len(output) - 1))
         IN  IF /\ Len(fields) = 3
                /\ isdigit(fields[1])
                /\ fields[3] = S_running
             THEN SetKey(before, fields[2], StrToInt(fields[1]))
             ELSE before

\* domain_id = None
None == -1

\* re.sub(r'^domain-', '', directory_name)
WithoutPrefix(directory_name) ==
    IF StartsWith(directory_name, S_domain)
    THEN SubSeq(directory_name, Len(S_domain) + 1, Len(directory_name))
    ELSE directory_name

\* s.partition('-'): the text before the first hyphen and the text after it
partition(s) ==
    IF \E i \in 1..Len(s) : s[i] = "-"
    THEN LET i == CHOOSE i \in 1..Len(s) :
                     /\ s[i] = "-"
                     /\ \A j \in 1..(i - 1) : s[j] # "-"
         IN  [head |-> SubSeq(s, 1, i - 1), tail |-> SubSeq(s, i + 1, Len(s))]
    ELSE [head |-> s, tail |-> <<>>]

\* lines 215-243: the guest name and the domain id a file name stands for;
\* int(domain_id) raises ValueError for text that is not a number
ParseFile(file) ==
    LET suffix == <<".">> \o GUEST_TO_HOST_CHANNEL_NAME
    IN  IF file.filename = GUEST_TO_HOST_CHANNEL_NAME
        THEN LET without_prefix == WithoutPrefix(Basename(file.root))
                 p == partition(without_prefix)
             IN  IF p.head # <<>> /\ p.tail # <<>>
                 THEN IF isdigit(p.head)
                      THEN [raised |-> "none", domain_id |-> StrToInt(p.head),
                            guest_name |-> p.tail]
                      ELSE [raised |-> "ValueError", domain_id |-> None,
                            guest_name |-> p.tail]
                 ELSE [raised |-> "none", domain_id |-> None,
                       guest_name |-> without_prefix]
        ELSE IF EndsWith(file.filename, suffix)
        THEN [raised |-> "none", domain_id |-> None,
              guest_name |-> SubSeq(file.filename, 1,
                                    Len(file.filename) - Len(suffix))]
        ELSE [raised |-> "none", domain_id |-> None, guest_name |-> <<>>]

\* line 248
IsRunning(running_guests, guest_name, domain_id) ==
    /\ InDict(running_guests, guest_name)
    /\ IF domain_id # None /\ domain_id # 0
       THEN DictGet(running_guests, guest_name) = domain_id
       ELSE TRUE

\* the body of the loop over the files for one file; st is the state of the
\* function: the channels found, whether the local variable pathname has
\* been assigned, and the exception that ended the function
VisitFile(st, file, running_guests) ==
    LET parsed == ParseFile(file)
        pathname == PathJoin(file.root, file.filename)
    IN  IF st.raised # "none" THEN st
        ELSE IF parsed.raised # "none"
        THEN [st EXCEPT !.raised = parsed.raised]
        ELSE IF parsed.guest_name = <<>> THEN st
        ELSE IF IsRunning(running_guests, parsed.guest_name, parsed.domain_id)
        THEN [st EXCEPT !.bound = TRUE,
                        !.channels = IF file.is_socket
                                     THEN SetKey(@, parsed.guest_name, pathname)
                                     ELSE @]
        ELSE IF st.bound THEN st
        ELSE [st EXCEPT !.raised = "UnboundLocalError"]

RECURSIVE VisitFiles(_, _)
VisitFiles(files, running_guests) ==
    IF files = <<>>
    THEN [channels |-> <<>>, bound |-> FALSE, raised |-> "none"]
    ELSE VisitFile(VisitFiles(SubSeq(files, 1, Len(files) - 1), running_guests),
                   files[Len(files)], running_guests)

\* find_available_channels(directory, GUEST_TO_HOST_CHANNEL_NAME)
find_available_channels(situation) ==
    VisitFiles(Walk(situation), find_running_guests(VirshOutput(situation)))

\* dict.items() as a set of (guest_name, unix_socket)
Items(ms) == {<<ms[i].k, ms[i].v>> : i \in 1..Len(ms)}

-----------------------------------------------------------------------------
(* The host daemon: HostDaemon.enter_main_loop and update_active_channels. *)
(*                                                                         *)
(* A key is (guest_name, unix_socket).  A worker process is                *)
(* [key, state] with state "alive" (started and running), "dead" (its      *)
(* run() ended) or "terminated" (terminate() was called on it); its pid is *)
(* its place in procs.                                                     *)

\* the guests of a situation that are running
RunningGuests(situation) ==
    {situation.guests[k].name : k \in {j \in 1..Len(situation.guests) :
                                          situation.guests[j].running}}

\* the pathnames of a situation that are UNIX sockets
Sockets(situation) ==
    {PathJoin(ChannelFile(situation.files[k]).root,
              ChannelFile(situation.files[k]).filename) :
        k \in {j \in 1..Len(situation.files) : situation.files[j].is_socket}}

\* (guest, pathname) for every running guest that has a guest-to-host
\* channel whose file is a UNIX socket
Exposed(situation) ==
    {<<situation.files[k].guest,
       PathJoin(ChannelFile(situation.files[k]).root,
                ChannelFile(situation.files[k]).filename)>> :
        k \in {j \in 1..Len(situation.files) :
                  /\ situation.files[j].is_socket
                  /\ situation.files[j].channel = "guest-to-host"
                  /\ situation.files[j].guest \in RunningGuests(situation)}}

ExposedGuests(situation) == {x[1] : x \in Exposed(situation)}

ActiveKeys(ac) == {e.key : e \in ac}

\* self.active_channels[key]
Channel(ac, key) == (CHOOSE e \in ac : e.key = key).pid

\* self.active_channels.pop(key)
Pop(ac, key) == {e \in ac : e.key # key}

\* multiprocessing.Process.is_alive()
is_alive(ps, pid) == ps[pid].state = "alive"

\* multiprocessing.Process.terminate(): nothing happens to a process that
\* has ended already
terminate(ps, pid) ==
    IF ps[pid].state = "alive" THEN [ps EXCEPT ![pid].state = "terminated"]
    ELSE ps

\* lines 61-63: terminate every channel of the dict
TerminateAll(ps, ac) ==
    [pid \in 1..Len(ps) |->
        IF /\ \E e \in ac : e.pid = pid
           /\ ps[pid].state = "alive"
        THEN [ps[pid] EXCEPT !.state = "terminated"]
        ELSE ps[pid]]

\* the worker of a dead channel stays in the dict
CleanupNever(st, key) == st

\* lines 74-79: forget a worker that has died
Cleanup(st, key) ==
    IF /\ key \in ActiveKeys(st.ac)
       /\ ~is_alive(st.ps, Channel(st.ac, key))
    THEN [st EXCEPT !.ac = Pop(@, key)]
    ELSE st

\* a guest once seen running without the channel gets no worker later on
NeedsChannelUnlessIgnored(st, key, available) ==
    /\ key \in available
    /\ key \notin ActiveKeys(st.ac)
    /\ key[1] \notin unexposed

\* line 81: an available channel that has no worker
NeedsChannel(st, key, available) ==
    key \in available /\ key \notin ActiveKeys(st.ac)

\* lines 83-84: AutomaticGuestChannel(guest_name, unix_socket), start()
Start(ps, key) == Append(ps, [key |-> key, state |-> "alive"])

\* line 85: self.active_channels[key] = channel
Insert(ac, key, pid) == Pop(ac, key) \cup {[key |-> key, pid |-> pid]}

\* the worker of a channel that is gone is dropped from the dict and left
\* running
DestroyDropOnly(st, key, available) ==
    IF key \in ActiveKeys(st.ac) /\ key \notin available
    THEN [st EXCEPT !.ac = Pop(@, key)]
    ELSE st

\* lines 87-90: terminate and forget the worker of a channel that is gone
Destroy(st, key, available) ==
    IF key \in ActiveKeys(st.ac) /\ key \notin available
    THEN [ac |-> Pop(st.ac, key),
          ps |-> terminate(st.ps, Channel(st.ac, key))]
    ELSE st

\* what can end a worker: GuestChannel.__init__ fails, the main loop gets a
\* ProtocolError, anything else
WorkerExceptions ==
    {"GuestChannelInitializationError", "ProtocolError", "Exception"}

\* AutomaticGuestChannel.run: both except clauses log the exception and
\* fall off the end of run(), which ends the process
run(exc) == "dead"

\* the guests whose worker in the dict is not alive
DeadChannels(ac, ps) == {e.key[1] : e \in {x \in ac : ~is_alive(ps, x.pid)}}

HostInit ==
    /\ HostIdle
    /\ CodecIdle
    /\ RpcIdle
    /\ CommandsIdle
    /\ GuestIdle
    /\ TimeoutIdle
    /\ EnvIdle
    /\ StartIdle
    /\ ChanIdle
    /\ WakeIdle
    /\ LegacyIdle

\* update_active_channels up to its for loop, on the host in situation i.
\* The virsh command fails (execute raises) or gives its listing.  An
\* exception of find_available_channels leaves update_active_channels and
\* the while loop: the finally clause terminates every channel.
UpdateBegin(i) ==
    \E virsh_ok \in BOOLEAN :
       LET found == IF virsh_ok
                    THEN find_available_channels(Situations[i])
                    ELSE [channels |-> <<>>, bound |-> FALSE,
                          raised |-> "ExternalCommandFailed"]
       IN  /\ hostPc = "loop"
           /\ ticks < MaxTicks
           /\ ticks' = ticks + 1
           /\ observed' = i
           /\ at_begin' = [dead |-> DeadChannels(active_channels, procs),
                         nprocs |-> Len(procs)]
           /\ IF found.raised # "none"
              THEN /\ hostPc' = "crashed"
                   /\ raised' = found.raised
                   /\ procs' = TerminateAll(procs, active_channels)
                   /\ UNCHANGED <<active_channels, available_channels, keys>>
              ELSE /\ hostPc' = "for"
                   /\ available_channels' = Items(found.channels)
                   /\ keys' = ActiveKeys(active_channels)
                                 \cup Items(found.channels)
                   /\ UNCHANGED <<active_channels, procs, raised>>
           /\ UNCHANGED <<new_channel, unexposed, ended, exceptHost>>

\* one pass of the for loop (a set is visited in no particular order), up
\* to channel.start() when the key needs a worker, all of it otherwise
UpdateKey(key) ==
    LET st0 == [ac |-> active_channels, ps |-> procs]
        st1 == Cleanup(st0, key)
        st3 == Destroy(st1, key, available_channels)
    IN  /\ hostPc = "for"
        /\ key \in keys
        /\ IF NeedsChannel(st1, key, available_channels)
           THEN /\ procs' = Start(st1.ps, key)
                /\ new_channel' = Len(procs) + 1
                /\ active_channels' = st1.ac
                /\ hostPc' = "start"
                /\ UNCHANGED keys
           ELSE /\ procs' = st3.ps
                /\ active_channels' = st3.ac
                /\ keys' = keys \ {key}
                /\ UNCHANGED <<hostPc, new_channel>>
        /\ UNCHANGED <<available_channels, observed, ticks, raised,
                       unexposed, at_begin, ended, exceptHost>>

\* the rest of the pass: the started worker goes into the dict
UpdateInsert ==
    LET key == procs[new_channel].key
        st2 == [ac |-> Insert(active_channels, key, new_channel), ps |-> procs]
        st3 == Destroy(st2, key, available_channels)
    IN  /\ hostPc = "start"
        /\ active_channels' = st3.ac
        /\ procs' = st3.ps
        /\ keys' = keys \ {key}
        /\ new_channel' = 0
        /\ hostPc' = "for"
        /\ UNCHANGED <<available_channels, observed, ticks, raised,
                       unexposed, at_begin, ended, exceptHost>>

\* the for loop is over: update_active_channels returns
UpdateReturn ==
    /\ hostPc = "for"
    /\ keys = {}
    /\ hostPc' = "returned"
    /\ unexposed' = unexposed \cup (RunningGuests(Situations[observed])
                                       \ ExposedGuests(Situations[observed]))
    /\ UNCHANGED <<active_channels, procs, available_channels, keys,
                   observed, ticks, new_channel, raised, at_begin, ended,
                   exceptHost>>

\* time.sleep(10)
Sleep ==
    /\ hostPc = "returned"
    /\ hostPc' = "loop"
    /\ UNCHANGED <<active_channels, procs, available_channels, keys,
                   observed, ticks, new_channel, raised, unexposed, at_begin,
                   ended, exceptHost>>

\* an exception inside a worker: in GuestChannel.__init__ or in its main
\* loop
WorkerExit(pid) ==
    \E exc \in WorkerExceptions :
       /\ pid \in 1..Len(procs)
       /\ procs[pid].state = "alive"
       /\ procs' = [procs EXCEPT ![pid].state = run(exc)]
       /\ ended' = [pid |-> pid, exc |-> exc]
       /\ UNCHANGED <<hostPc, active_channels, available_channels, keys,
                      observed, ticks, new_channel, raised, unexposed, at_begin,
                      exceptHost>>

\* the daemon gets SIGTERM, anywhere inside enter_main_loop: GracefulShutdown
\* raises TerminationError there and the finally clause terminates every
\* channel of the dict
Shutdown ==
    /\ hostPc \in {"loop", "for", "start", "returned"}
    /\ hostPc' = "exited"
    /\ raised' = "TerminationError"
    /\ procs' = TerminateAll(procs, active_channels)
    /\ UNCHANGED <<active_channels, available_channels, keys, observed,
                   ticks, new_channel, unexposed, at_begin, ended, exceptHost>>

HostNext ==
    \/ \E i \in 1..Len(Situations) : UpdateBegin(i)
    \/ \E key \in keys : UpdateKey(key)
    \/ UpdateInsert
    \/ UpdateReturn
    \/ Sleep
    \/ \E pid \in 1..Len(procs) : WorkerExit(pid)
    \/ Shutdown

SpecHost == HostInit /\ [][HostNext]_vars

-----------------------------------------------------------------------------
(* Properties of the host daemon (SpecHost).                               *)

\* C9: when update_active_channels has returned, every key of the dict
\* belongs to a running guest, and every worker ever created whose guest is
\* not running or whose socket is gone is not alive: it was terminated (or
\* had died by itself), not just dropped from the dict.
C9_WorkersOfRunningGuests ==
    hostPc = "returned" =>
       /\ \A e \in active_channels :
             e.key[1] \in RunningGuests(Situations[observed])
       /\ \A pid \in 1..Len(procs) :
             (\/ procs[pid].key[1] \notin RunningGuests(Situations[observed])
              \/ procs[pid].key[2] \notin Sockets(Situations[observed]))
             => procs[pid].state # "alive"

\* an update has returned after it terminated the worker of a guest that is
\* gone and kept the worker of one that is still there
C9_Witness ==
    /\ hostPc = "returned"
    /\ active_channels # {}
    /\ \E pid \in 1..Len(procs) :
          /\ procs[pid].state = "terminated"
          /\ procs[pid].key[1] \notin RunningGuests(Situations[observed])

\* C10: when update_active_channels has returned, every running guest that
\* exposes the guest-to-host channel has exactly one worker in the dict and
\* that worker was started on the guest's socket.
C10_OneWorkerPerExposedGuest ==
    hostPc = "returned" =>
       \A x \in Exposed(Situations[observed]) :
          /\ Cardinality({e \in active_channels : e.key[1] = x[1]}) = 1
          /\ \E e \in active_channels :
                /\ e.key = x
                /\ procs[e.pid].key = x

\* the workers of guest g in the dict that were started by the update in
\* progress (or just finished)
FreshWorkers(g) ==
    {e \in active_channels : e.key[1] = g /\ e.pid > at_begin.nprocs}

C12_CrashRecovery ==
    hostPc = "returned" =>
       \A g \in at_begin.dead :
          IF g \in ExposedGuests(Situations[observed])
          THEN /\ FreshWorkers(g) # {}
               /\ \A e \in active_channels : e.key[1] = g => e \in FreshWorkers(g)
          ELSE \A e \in active_channels : e.key[1] # g

\* C13: when the daemon has exited on SIGTERM, no worker process it started
\* is left alive.
C13_ShutdownTerminatesAll ==
    hostPc = "exited" => \A pid \in 1..Len(procs) : procs[pid].state # "alive"

\* C14: discovery failure.  When the virsh command has failed the daemon is
\* still in its loop and no worker of the dict was terminated.
C14_DiscoveryFailure ==
    raised = "ExternalCommandFailed" =>
       /\ hostPc \in {"loop", "returned"}
       /\ \A e \in active_channels : procs[e.pid].state # "terminated"

\* C27: find_available_channels ignores the sockets of guests that are not
\* running.  For the situation of the host at the last update,
\* find_available_channels raises nothing and its dict holds exactly the
\* running guests whose guest-to-host channel file is a UNIX socket, each
\* with the pathname of that file.
C27_IgnoresForeignSockets ==
    ticks > 0 =>
       /\ raised \notin {"UnboundLocalError", "ValueError"}
       /\ find_available_channels(Situations[observed]).raised = "none"
       /\ Items(find_available_channels(Situations[observed]).channels)
             = Exposed(Situations[observed])

\* C37: the guest name of a channel socket in a per-guest directory.  For
\* every guest-to-host file of the host's situation that is stored in a
\* directory domain-GUEST_NAME or domain-DOMAIN_ID-GUEST_NAME,
\* find_available_channels derives the name of the guest, the domain id of
\* the second layout and no domain id in the first, and raises nothing.
C37_GuestNameOfDirectory ==
    ticks > 0 =>
       \A k \in 1..Len(Situations[observed].files) :
          LET file == Situations[observed].files[k]
              parsed == ParseFile(ChannelFile(file))
          IN  (file.layout \in {"16.04", "18.04"}
                  /\ file.channel = "guest-to-host") =>
                 /\ parsed.raised = "none"
                 /\ parsed.guest_name = file.guest
                 /\ parsed.domain_id = IF file.layout = "18.04" THEN file.id
                                       ELSE None

\* C31: an update leaves the other workers alone.  In no step of
\* update_active_channels is a live worker of the dict terminated or taken
\* out of the dict when, in the situation of that update, its guest is
\* running and exposes the socket of its key; the second sentence of the
\* claim (a second update in the same situation changes nothing) follows
\* from this one.
C31_LiveWorkersUntouched ==
    [][ (hostPc' # "exited" /\ observed' # 0) =>
           \A e \in active_channels :
              (is_alive(procs, e.pid)
                  /\ e.key \in Exposed(Situations[observed'])) =>
                 /\ procs'[e.pid].state # "terminated"
                 /\ e \in active_channels' ]_vars

USER_COMMANDS_DIRECTORY ==
    <<"/", "u", "s", "r", "/", "l", "i", "b", "/", "n", "e", "g", "o", "t", "i", "a", "t", "o", "r", "/", "c", "o", "m", "m", "a", "n", "d", "s">>

\* the directory "scripts" next to config.py, relative to where the
\* package is installed
BUILTIN_COMMANDS_DIRECTORY ==
    <<"n", "e", "g", "o", "t", "i", "a", "t", "o", "r", "_", "c", "o", "m", "m", "o", "n", "/", "s", "c", "r", "i", "p", "t", "s">>

\* command names and arguments
S_x == <<"x">>
S_y == <<"y">>
S_z == <<"z">>
S_bin_x == <<"/", "b", "i", "n", "/", "x">>
S_x_slash == <<"x", "/">>
S_arg == <<"-", "v">>

\* an entry of a directory: "exec" is a regular file the process may
\* execute, "file" a regular file it may not, "dir" a subdirectory
Entry(name, kind) == [name |-> name, kind |-> kind]

\* what os.listdir() of a command directory can give, in its order
Contents ==
    << <<>>,
       <<Entry(S_x, "exec")>>,
       <<Entry(S_x, "file")>>,
       <<Entry(S_x, "dir")>>,
       <<Entry(S_y, "exec")>>,
       <<Entry(S_x, "exec"), Entry(S_y, "exec")>>,
       <<Entry(S_y, "file"), Entry(S_x, "exec")>> >>

Missing == [exists |-> FALSE, entries |-> <<>>]

Directories ==
    {[exists |-> TRUE, entries |-> Contents[i]] : i \in 1..Len(Contents)}
        \cup {Missing}

\* the arguments of execute(*command)
Commands ==
    << <<S_x>>,
       <<S_y, S_arg>>,
       <<S_bin_x, S_arg, S_x>>,
       <<S_z>>,
       <<S_x_slash>>,
       <<>> >>

\* the part of the file system the two methods look at
FileSystem(user, builtin) == [user |-> user, builtin |-> builtin]

\* the entries of a command directory that have the given pathname
EntriesAt(d, root, path) ==
    {i \in 1..Len(d.entries) :
        d.exists /\ PathJoin(root, d.entries[i].name) = path}

\* what a pathname is: "exec", "file", "dir" or "absent"
Stat(fs, path) ==
    IF EntriesAt(fs.user, USER_COMMANDS_DIRECTORY, path) # {}
    THEN fs.user.entries[
             CHOOSE i \in EntriesAt(fs.user, USER_COMMANDS_DIRECTORY, path) :
                 TRUE].kind
    ELSE IF EntriesAt(fs.builtin, BUILTIN_COMMANDS_DIRECTORY, path) # {}
    THEN fs.builtin.entries[
             CHOOSE i \in EntriesAt(fs.builtin, BUILTIN_COMMANDS_DIRECTORY,
                                    path) : TRUE].kind
    ELSE IF \/ /\ fs.user.exists
               /\ path \in {USER_COMMANDS_DIRECTORY,
                            USER_COMMANDS_DIRECTORY \o <<"/">>}
            \/ /\ fs.builtin.exists
               /\ path \in {BUILTIN_COMMANDS_DIRECTORY,
                            BUILTIN_COMMANDS_DIRECTORY \o <<"/">>}
    THEN "dir"
    ELSE "absent"

\* os.path.isdir(path)
isdir(fs, path) == Stat(fs, path) = "dir"

\* os.path.exists(path)
exists(fs, path) == Stat(fs, path) # "absent"

\* os.path.isfile(path)
isfile(fs, path) == Stat(fs, path) \in {"exec", "file"}

\* os.access(path, os.X_OK): a directory of these can be searched
access_X_OK(fs, path) == Stat(fs, path) \in {"exec", "dir"}

\* os.listdir(directory) of one of the two command directories
listdir(fs, directory) ==
    LET d == IF directory = USER_COMMANDS_DIRECTORY THEN fs.user
             ELSE fs.builtin
    IN  [i \in 1..Len(d.entries) |-> d.entries[i].name]

\* os.path.basename(path): what follows the last slash
basename(path) ==
    LET slashes == {i \in 1..Len(path) : path[i] = "/"}
        last == IF slashes = {} THEN 0
                ELSE CHOOSE i \in slashes : \A j \in slashes : j <= i
    IN  SubSeq(path, last + 1, Len(path))

\* commands.append(entry), were commands a list
append(commands, entry) == Append(commands, entry)

\* commands.add(entry); the sequence is the order list(commands) gives
add(commands, entry) ==
    IF \E i \in 1..Len(commands) : commands[i] = entry
    THEN commands
    ELSE Append(commands, entry)

RECURSIVE AddEntries(_, _, _, _, _)
\* "for entry in os.listdir(directory)" of list_commands, from entry i
AddEntries(fs, directory, entries, i, commands) ==
    IF i > Len(entries) THEN commands
    ELSE LET pathname == PathJoin(directory, entries[i])
         IN  AddEntries(fs, directory, entries, i + 1,
                        IF isfile(fs, pathname) /\ access_X_OK(fs, pathname)
                        THEN add(commands, entries[i])
                        ELSE commands)

\* one round of "for directory in (...)" of list_commands
AddDirectory(fs, directory, commands) ==
    IF isdir(fs, directory)
    THEN AddEntries(fs, directory, listdir(fs, directory), 1, commands)
    ELSE commands

\* NegotiatorInterface.list_commands()
list_commands(fs) ==
    AddDirectory(fs, USER_COMMANDS_DIRECTORY,
                 AddDirectory(fs, BUILTIN_COMMANDS_DIRECTORY, <<>>))

\* executor.execute(*argv, capture=True): the program runs when it is an
\* executable regular file, and the call raises when it does not run or
\* when it exits with a status other than zero
Run(fs, argv, status) ==
    IF Stat(fs, argv[1]) = "exec" /\ status = 0
    THEN "none"
    ELSE "ExternalCommandFailed"

\* NegotiatorInterface.execute(*command): the argv it hands to the executor
\* and what the call raises
execute(fs, command, status) ==
    IF command = <<>>
    THEN [argv |-> <<>>, raised |-> "IndexError"]
    ELSE LET command_name == basename(command[1])
             user_command == PathJoin(USER_COMMANDS_DIRECTORY, command_name)
             builtin_command ==
                 PathJoin(BUILTIN_COMMANDS_DIRECTORY, command_name)
             argv == <<IF isfile(fs, user_command) THEN user_command
                       ELSE builtin_command>> \o Tail(command)
         IN  [argv |-> argv, raised |-> Run(fs, argv, status)]

\* os.chmod(pathname, 0o755) of every regular file of the builtin directory
\* that the process may not execute
MakeExecutable(d) ==
    [d EXCEPT !.entries =
        [i \in 1..Len(d.entries) |->
            IF d.entries[i].kind = "file"
            THEN Entry(d.entries[i].name, "exec")
            ELSE d.entries[i]]]

NoCall ==
    [op |-> "none", command |-> <<>>, argv |-> <<>>, raised |-> "none",
     result |-> <<>>]

CommandsInit ==
    /\ user_commands \in Directories
    /\ builtin_commands \in Directories
    /\ constructed = "no"
    /\ last_call = NoCall
    /\ CodecIdle
    /\ RpcIdle
    /\ HostIdle
    /\ GuestIdle
    /\ TimeoutIdle
    /\ EnvIdle
    /\ StartIdle
    /\ ChanIdle
    /\ WakeIdle
    /\ LegacyIdle

\* NegotiatorInterface.__init__: os.listdir() raises when the builtin
\* directory is missing
Construct ==
    /\ constructed = "no"
    /\ IF builtin_commands.exists
       THEN /\ builtin_commands' = MakeExecutable(builtin_commands)
            /\ constructed' = "yes"
       ELSE /\ constructed' = "raised"
            /\ UNCHANGED builtin_commands
    /\ UNCHANGED <<user_commands, last_call, exceptCommands>>

\* the administrator changes a command directory; last_call is the last
\* call since the directories changed
SetDirectory ==
    /\ \E user \in Directories, builtin \in Directories :
          /\ <<user, builtin>> # <<user_commands, builtin_commands>>
          /\ user = user_commands \/ builtin = builtin_commands
          /\ user_commands' = user
          /\ builtin_commands' = builtin
    /\ last_call' = NoCall
    /\ UNCHANGED <<constructed, exceptCommands>>

\* a call of list_commands()
ListCommands ==
    /\ constructed = "yes"
    /\ last_call' =
          [op |-> "list_commands", command |-> <<>>, argv |-> <<>>,
           raised |-> "none",
           result |->
               list_commands(FileSystem(user_commands, builtin_commands))]
    /\ UNCHANGED <<user_commands, builtin_commands, constructed,
                   exceptCommands>>

\* a call of execute(*Commands[i])
Execute(i) ==
    /\ constructed = "yes"
    /\ \E status \in {0, 1} :
          LET call == execute(FileSystem(user_commands, builtin_commands),
                              Commands[i], status)
          IN  last_call' =
                 [op |-> "execute", command |-> Commands[i],
                  argv |-> call.argv, raised |-> call.raised,
                  result |-> <<>>]
    /\ UNCHANGED <<user_commands, builtin_commands, constructed,
                   exceptCommands>>

CommandsNext ==
    \/ Construct
    \/ SetDirectory
    \/ ListCommands
    \/ \E i \in 1..Len(Commands) : Execute(i)

SpecCommands == CommandsInit /\ [][CommandsNext]_vars

(***************************************************************************)
(* Properties of the command directories.                                  *)
(***************************************************************************)

\* the name is an entry of the directory, of whatever kind
Present(d, name) ==
    d.exists /\ \E i \in 1..Len(d.entries) : d.entries[i].name = name

\* the name is an entry of the directory of one of the kinds
PresentAs(d, name, kinds) ==
    /\ d.exists
    /\ \E i \in 1..Len(d.entries) :
          d.entries[i].name = name /\ d.entries[i].kind \in kinds

C17_ListCommands ==
    last_call.op = "list_commands" =>
       /\ last_call.raised = "none"
       /\ \A i, j \in 1..Len(last_call.result) :
             last_call.result[i] = last_call.result[j] => i = j
       /\ {last_call.result[i] : i \in 1..Len(last_call.result)} =
             {name \in {S_x, S_y, S_z} :
                 \/ PresentAs(builtin_commands, name, {"exec"})
                 \/ PresentAs(user_commands, name, {"exec"})}

\* both directories have the executable x, and it was listed once, without
\* the y that is not executable
C17_Witness ==
    /\ last_call.op = "list_commands"
    /\ PresentAs(builtin_commands, S_x, {"exec"})
    /\ PresentAs(user_commands, S_x, {"exec"})
    /\ PresentAs(user_commands, S_y, {"file"})
    /\ last_call.result = <<S_x>>

\* list_commands() with the user directory missing
C17_WitnessMissing ==
    /\ last_call.op = "list_commands"
    /\ ~user_commands.exists
    /\ last_call.result = <<S_x, S_y>>

\* C35: list_commands and execute agree.  When execute() was called for a
\* name that list_commands() returns for the same directories, the program
\* it handed to the executor is an executable regular file.
C35_CatalogAgreement ==
    LET fs == FileSystem(user_commands, builtin_commands)
        listed == {list_commands(fs)[i] : i \in 1..Len(list_commands(fs))}
    IN  (/\ last_call.op = "execute"
         /\ last_call.command # <<>>
         /\ last_call.command[1] \in listed) =>
           Stat(fs, last_call.argv[1]) = "exec"

(***************************************************************************)
(* The guest agent's raw_readline (negotiator_guest/__init__.py) with its  *)
(* WaitForRead helpers, inside the GracefulShutdown scope                  *)
(* (negotiator_common/utils.py).  A signal handler of Python runs between  *)
(* two bytecodes of the main thread, so SIGTERM can arrive at every        *)
(* position below.                                                         *)
(***************************************************************************)

\* positions of raw_readline inside the try block of lines 119-136
InTry == {"start", "forked", "recheck", "join", "verify"}

\* positions at which the GracefulShutdown scope is entered and not left
InScope == {"store"} \cup InTry \cup {"finally", "exit"}

\* positions at which the guest agent has ended
Ended == {"raised", "killed"}

\* multiprocessing.Process.start(): the child process exists
Helper == [alive |-> TRUE, terminate_called |-> FALSE]

\* the helpers that are alive
Alive(hs) == {h \in 1..Len(hs) : hs[h].alive}

\* Process.terminate(): SIGTERM is sent to the child and the call returns;
\* it does not wait for the child
terminate_waiter(hs) ==
    [hs EXCEPT ![Len(hs)] = [@ EXCEPT !.terminate_called = TRUE]]

\* what conn_handle.readline() and the fcntl calls next to it can do
ReadResults == {"data", "empty", "IOError"}

GuestInit ==
    /\ guestPc = "idle"
    /\ helpers = <<>>
    /\ popen = FALSE
    /\ leaving = "none"
    /\ sigterm \in {"SIG_DFL", "SIG_IGN"}
    /\ previous_handler = "unset"
    /\ disposition_before = sigterm
    /\ CodecIdle
    /\ RpcIdle
    /\ HostIdle
    /\ CommandsIdle
    /\ TimeoutIdle
    /\ EnvIdle
    /\ StartIdle
    /\ ChanIdle
    /\ WakeIdle
    /\ LegacyIdle

\* raw_readline() is called (by read())
CallReadline ==
    /\ guestPc \in {"idle", "returned"}
    /\ guestPc' = "readline"
    /\ leaving' = "none"
    /\ UNCHANGED <<helpers, popen, sigterm, previous_handler,
                   disposition_before, exceptGuest>>

\* lines 92-111: the first readline() of a round; with no data the O_ASYNC
\* flag is set and the WaitForRead object is made, not started
FirstRead ==
    /\ guestPc = "readline"
    /\ \E result \in ReadResults :
          /\ result = "empty" => Len(helpers) < MaxHelpers
          /\ guestPc' = CASE result = "data" -> "returned"
                          [] result = "empty" -> "enter"
                          [] OTHER -> "raised"
          /\ leaving' = IF result = "IOError" THEN "IOError" ELSE "none"
    /\ popen' = FALSE
    /\ UNCHANGED <<helpers, sigterm, previous_handler, disposition_before,
                   exceptGuest>>

\* GracefulShutdown.__enter__, the call signal.signal(SIGTERM, handler)
Install ==
    /\ guestPc = "enter"
    /\ disposition_before' = sigterm
    /\ sigterm' = "signal_handler"
    /\ guestPc' = "store"
    /\ UNCHANGED <<helpers, popen, leaving, previous_handler, exceptGuest>>

\* GracefulShutdown.__enter__, the assignment to self.previous_handler
StorePrevious ==
    /\ guestPc = "store"
    /\ previous_handler' = disposition_before
    /\ guestPc' = "start"
    /\ UNCHANGED <<helpers, popen, leaving, sigterm, disposition_before,
                   exceptGuest>>

\* line 121, waiter.start(): the child is forked
Fork ==
    /\ guestPc = "start"
    /\ helpers' = Append(helpers, Helper)
    /\ guestPc' = "forked"
    /\ UNCHANGED <<popen, leaving, sigterm, previous_handler,
                   disposition_before, exceptGuest>>

\* line 121, waiter.start(): the parent stores the child in waiter._popen
StartReturns ==
    /\ guestPc = "forked"
    /\ popen' = TRUE
    /\ guestPc' = "recheck"
    /\ UNCHANGED <<helpers, leaving, sigterm, previous_handler,
                   disposition_before, exceptGuest>>

\* lines 123-129: F_SETOWN and the second readline()
Recheck ==
    /\ guestPc = "recheck"
    /\ \E result \in ReadResults :
          /\ guestPc' = IF result = "empty" THEN "join" ELSE "finally"
          /\ leaving' = CASE result = "data" -> "break"
                          [] result = "empty" -> "none"
                          [] OTHER -> "IOError"
    /\ UNCHANGED <<helpers, popen, sigterm, previous_handler,
                   disposition_before, exceptGuest>>

\* line 132, waiter.join(): returns when the helper has exited
Join ==
    /\ guestPc = "join"
    /\ ~helpers[Len(helpers)].alive
    /\ guestPc' = "verify"
    /\ UNCHANGED <<helpers, popen, leaving, sigterm, previous_handler,
                   disposition_before, exceptGuest>>

\* lines 134-136: the third readline()
Verify ==
    /\ guestPc = "verify"
    /\ \E result \in ReadResults :
          leaving' = CASE result = "data" -> "break"
                       [] result = "empty" -> "none"
                       [] OTHER -> "IOError"
    /\ guestPc' = "finally"
    /\ UNCHANGED <<helpers, popen, sigterm, previous_handler,
                   disposition_before, exceptGuest>>

\* lines 137-139, the finally clause: waiter.terminate(), which raises
\* AttributeError when start() did not get to set waiter._popen
Finally ==
    /\ guestPc = "finally"
    /\ IF popen
       THEN /\ helpers' = terminate_waiter(helpers)
            /\ UNCHANGED leaving
       ELSE /\ leaving' = "AttributeError"
            /\ UNCHANGED helpers
    /\ guestPc' = "exit"
    /\ UNCHANGED <<popen, sigterm, previous_handler, disposition_before,
                   exceptGuest>>

\* GracefulShutdown.__exit__: signal.signal(SIGTERM, self.previous_handler),
\* then the break, the exception or line 143 goes on
Restore ==
    /\ guestPc = "exit"
    /\ sigterm' = previous_handler
    /\ guestPc' = CASE leaving = "none" -> "sleep"
                    [] leaving = "break" -> "returned"
                    [] OTHER -> "raised"
    /\ UNCHANGED <<helpers, popen, leaving, previous_handler,
                   disposition_before, exceptGuest>>

\* line 143, time.sleep(1), and the next round of the while loop
Poll ==
    /\ guestPc = "sleep"
    /\ guestPc' = "readline"
    /\ UNCHANGED <<helpers, popen, leaving, sigterm, previous_handler,
                   disposition_before, exceptGuest>>

\* SIGTERM is delivered to the guest agent.  With the handler of
\* GracefulShutdown installed TerminationError is raised where the agent
\* is: in __enter__ it leaves the with statement without __exit__, in the
\* try block it goes to the finally clause, in the finally clause it skips
\* the rest of the clause, in __exit__ it skips the restoring.  With the
\* default disposition the agent is killed.
Sigterm ==
    /\ guestPc \notin Ended
    /\ sigterm # "SIG_IGN"
    /\ IF sigterm = "signal_handler"
       THEN /\ guestPc' = CASE guestPc \in InTry -> "finally"
                            [] guestPc = "finally" -> "exit"
                            [] OTHER -> "raised"
            /\ leaving' = "TerminationError"
       ELSE /\ guestPc' = "killed"
            /\ UNCHANGED leaving
    /\ UNCHANGED <<helpers, popen, sigterm, previous_handler,
                   disposition_before, exceptGuest>>

\* WaitForRead.run ends: SIGIO has arrived (signal_handler, sys.exit(0)),
\* or the SIGTERM of terminate() has
HelperExit(h) ==
    /\ helpers[h].alive
    /\ helpers' = [helpers EXCEPT ![h] = [@ EXCEPT !.alive = FALSE]]
    /\ UNCHANGED <<guestPc, popen, leaving, sigterm, previous_handler,
                   disposition_before, exceptGuest>>

GuestNext ==
    \/ CallReadline
    \/ FirstRead
    \/ Install
    \/ StorePrevious
    \/ Fork
    \/ StartReturns
    \/ Recheck
    \/ Join
    \/ Verify
    \/ Finally
    \/ Restore
    \/ Poll
    \/ Sigterm
    \/ \E h \in 1..Len(helpers) : HelperExit(h)

SpecGuest == GuestInit /\ [][GuestNext]_vars

(***************************************************************************)
(* Properties of the guest agent's raw_readline and of GracefulShutdown.   *)
(***************************************************************************)

\* C18: wherever raw_readline is outside the try block and its finally
\* clause (it has returned, an exception or TerminationError has left it,
\* it polls), terminate() was called on every helper that was started.
C18_HelpersTerminated ==
    guestPc \notin InTry \cup {"finally"} =>
       \A h \in 1..Len(helpers) : helpers[h].terminate_called

\* C19: when raw_readline has returned no helper is alive, and never is
\* more than one helper alive.
C19_OneReader ==
    /\ guestPc = "returned" => Alive(helpers) = {}
    /\ Cardinality(Alive(helpers)) <= 1

\* C20: outside the GracefulShutdown scope the disposition of SIGTERM is
\* the one that was there when the scope was entered.
C20_DispositionRestored ==
    guestPc \notin InScope => sigterm = disposition_before

(***************************************************************************)
(* The TimeOut scope (negotiator_common/utils.py) around the actions of    *)
(* the command line interfaces: Context.print_commands and                 *)
(* Context.execute_command of the host, --list-commands and --execute of   *)
(* the guest.  The body opens the channel, writes a request and blocks in  *)
(* the read of the response.                                               *)
(***************************************************************************)

\* positions of the body of the with statement
Body == {"connect", "write", "read"}

\* signal.alarm(seconds): zero schedules nothing and cancels what was scheduled
alarm(seconds) == seconds

\* TimeOut.signal_handler raises TimeOutError where the action is: what is
\* on its way out afterwards.  GuestChannel.__init__ catches Exception
\* around socket.connect and raises GuestChannelInitializationError.
signal_handler(pc, where) ==
    IF where = "host" /\ pc = "connect"
    THEN "GuestChannelInitializationError"
    ELSE "TimeOutError"

TimeoutInit ==
    /\ toPc = "enter"
    /\ side \in {"host", "guest"}
    /\ num_seconds \in 0..MaxSeconds
    /\ alarm_left = 0
    /\ sigalrm = "SIG_DFL"
    /\ fired_at = "none"
    /\ propagating = "none"
    /\ elapsed = 0
    /\ CodecIdle
    /\ RpcIdle
    /\ HostIdle
    /\ CommandsIdle
    /\ GuestIdle
    /\ EnvIdle
    /\ StartIdle
    /\ ChanIdle
    /\ WakeIdle
    /\ LegacyIdle

\* TimeOut.__enter__: signal.signal(SIGALRM, self.signal_handler)
TimeOutInstall ==
    /\ toPc = "enter"
    /\ sigalrm' = "signal_handler"
    /\ toPc' = "schedule"
    /\ UNCHANGED <<side, num_seconds, alarm_left, fired_at, propagating,
                   elapsed, exceptTimeout>>

\* TimeOut.__enter__: signal.alarm(self.num_seconds)
TimeOutSchedule ==
    /\ toPc = "schedule"
    /\ alarm_left' = alarm(num_seconds)
    /\ toPc' = "connect"
    /\ UNCHANGED <<side, num_seconds, sigalrm, fired_at, propagating,
                   elapsed, exceptTimeout>>

\* the body: GuestChannel(...) or GuestAgent(...), which can fail; the
\* write of the request; the read of the response, which returns when the
\* response has arrived
BodyStep ==
    /\ toPc \in Body
    /\ \E ok \in BOOLEAN :
          /\ ~ok => toPc = "connect"
          /\ toPc' = CASE ~ok -> "cancel"
                       [] toPc = "connect" -> "write"
                       [] toPc = "write" -> "read"
                       [] OTHER -> "cancel"
          /\ propagating' =
                IF ok THEN "none"
                ELSE IF side = "host" THEN "GuestChannelInitializationError"
                ELSE "IOError"
    /\ UNCHANGED <<side, num_seconds, alarm_left, sigalrm, fired_at, elapsed,
                   exceptTimeout>>

\* TimeOut.__exit__: signal.alarm(0)
TimeOutCancel ==
    /\ toPc = "cancel"
    /\ alarm_left' = alarm(0)
    /\ toPc' = "restore"
    /\ UNCHANGED <<side, num_seconds, sigalrm, fired_at, propagating, elapsed,
                   exceptTimeout>>

\* TimeOut.__exit__: signal.signal(SIGALRM, self.previous_handler)
TimeOutRestore ==
    /\ toPc = "restore"
    /\ sigalrm' = "SIG_DFL"
    /\ toPc' = "left"
    /\ UNCHANGED <<side, num_seconds, alarm_left, fired_at, propagating,
                   elapsed, exceptTimeout>>

\* a second passes.  When the alarm runs out SIGALRM is delivered and the
\* handler raises TimeOutError where the action is: in the body the
\* exception goes to __exit__, in __exit__ (before the alarm is cancelled)
\* it leaves the scope at once.
Second ==
    /\ elapsed <= MaxSeconds
    /\ toPc # "left"
    /\ elapsed' = elapsed + 1
    /\ IF alarm_left = 1
       THEN /\ alarm_left' = 0
            /\ fired_at' = toPc
            /\ propagating' = signal_handler(toPc, side)
            /\ toPc' = IF toPc \in Body THEN "cancel" ELSE "left"
       ELSE /\ alarm_left' = IF alarm_left = 0 THEN 0 ELSE alarm_left - 1
            /\ UNCHANGED <<toPc, fired_at, propagating>>
    /\ UNCHANGED <<side, num_seconds, sigalrm, exceptTimeout>>

TimeoutNext ==
    \/ TimeOutInstall
    \/ TimeOutSchedule
    \/ BodyStep
    \/ TimeOutCancel
    \/ TimeOutRestore
    \/ Second

SpecTimeout == TimeoutInit /\ [][TimeoutNext]_vars

(***************************************************************************)
(* Properties of the TimeOut scope.                                        *)
(***************************************************************************)

\* C21: with num_seconds = 0 the alarm never fires, however long the body
\* runs; with num_seconds > 0 the body runs only while the alarm has not
\* fired, and a body in which the alarm fired is not running any more, with
\* TimeOutError on its way out.
C21_TimeOut ==
    /\ num_seconds = 0 => fired_at = "none"
    /\ (num_seconds > 0 /\ toPc \in Body) => alarm_left > 0
    /\ fired_at \in Body =>
          /\ toPc \notin Body
          /\ propagating = "TimeOutError"

\* C36: once the TimeOut scope has been left no alarm is pending and the
\* disposition of SIGALRM is the one that was there before the scope, and
\* a TimeOutError that is on its way out was raised in the body, not after
\* the body had finished.
C36_ScopeLeftClean ==
    toPc = "left" =>
       /\ alarm_left = 0
       /\ sigalrm = "SIG_DFL"
       /\ propagating = "TimeOutError" => fired_at \in Body

(***************************************************************************)
(* The serving endpoint against a peer that writes any well-framed JSON    *)
(* value as a request (the variables are those of the request/response     *)
(* protocol; calls holds what the peer wrote).                             *)
(***************************************************************************)

\* request values a peer can frame: requests without args, without kw,
\* without both, a complete request, and values that are no request
RawRequests ==
    << JObj(<<Member(S_method, JStr(S_list_commands))>>),
       JObj(<<Member(S_method, JStr(S_execute)),
              Member(S_args, JArr(<<JStr(<<"x">>)>>))>>),
       JObj(<<Member(S_method, JStr(S_execute)), Member(S_kw, JObj(<<>>))>>),
       Request(S_list_commands, <<>>, <<>>),
       JArr(<<JInt(1)>>),
       JStr(S_list_commands),
       JObj(<<Member(S_args, JArr(<<>>)), Member(S_kw, JObj(<<>>))>>),
       JObj(<<Member(S_method, JInt(1))>>) >>

\* the peer frames RawRequests[i] and writes it, without waiting for
\* responses
PeerWrite(i) ==
    /\ callerPc # "closed"
    /\ Len(calls) < MaxCalls
    /\ c2s' = c2s \o write(RawRequests[i])
    /\ calls' = Append(calls, RawRequests[i])
    /\ UNCHANGED <<s2c, c2sClosed, callerPc, serverPc, outcomes, served,
                   exceptRpc>>

ServerNext ==
    \/ \E i \in 1..Len(RawRequests) : PeerWrite(i)
    \/ CallerClose
    \/ Serve

SpecServer == RpcInit /\ [][ServerNext]_vars

(***************************************************************************)
(* Properties of the serving endpoint.                                     *)
(***************************************************************************)

\* the request with an empty args and an empty kw for the key it lacks
Completed(request) ==
    Request(Get(request, S_method).s,
            GetOr(request, S_args, JArr(<<>>)).a,
            GetOr(request, S_kw, JObj(<<>>)).o)

\* C22: a request that names a method and lacks the args key, the kw key or
\* both is handled as the same request with an empty list for args and an
\* empty dict for kw: the same method is invoked and the same response is
\* written.
C22_MissingArgsOrKw ==
    \A k \in 1..Len(served) :
       LET request == served[k].request
       IN  (/\ request.t = "obj"
            /\ GetOr(request, S_method, JNull).t = "str"
            /\ ~HasKey(request, S_args) \/ ~HasKey(request, S_kw))
           => \E commandOk \in BOOLEAN :
                 LET full == ServeRequest(Completed(request), commandOk)
                 IN  /\ served[k].invoked = full.invoked
                     /\ served[k].name = full.name
                     /\ served[k].response = full.response
                     /\ served[k].frames = full.frames
                     /\ served[k].pc = "serving"

\* {"method": "list_commands"} was answered with the list of commands, and
\* an execute without kw after it was answered too
C22_Witness ==
    /\ Len(served) = 2
    /\ served[1].request = RawRequests[1]
    /\ served[1].invoked
    /\ served[1].response = Success(JArr(<<JStr(S_alpha)>>))
    /\ served[2].request = RawRequests[2]
    /\ served[2].invoked
    /\ served[2].response = Success(JStr(S_output))

\* C23: the loop ends only by the end of the stream or a ProtocolError:
\* no other exception leaves it, and every request that was read, whatever
\* JSON value it is, was answered; one that is no object or names no method
\* by a string was answered with success = false.
C23_LoopEndsOnlyOnProtocolError ==
    /\ serverPc # "crashed"
    /\ \A k \in 1..Len(served) :
          /\ served[k].frames # <<>>
          /\ (\/ served[k].request.t # "obj"
              \/ GetOr(served[k].request, S_method, JNull).t # "str")
             => /\ served[k].response.t = "obj"
                /\ HasKey(served[k].response, S_success)
                /\ Get(served[k].response, S_success) = JBool(FALSE)

\* C29: for every request that was read exactly one frame was written, the
\* response, whichever method the request names.
C29_OneResponsePerRequest ==
    \A k \in 1..Len(served) : served[k].frames = write(served[k].response)

\* C30: only list_commands and execute are invoked for a remote peer: a
\* request that names anything else invokes nothing and is answered with
\* "Method <name> not supported".
C30_OnlyExposedMethods ==
    \A k \in 1..Len(served) :
       served[k].known =>
          /\ served[k].invoked => served[k].name \in ExposedMethods
          /\ served[k].name \notin ExposedMethods =>
                served[k].response = NotSupported(served[k].name)

(***************************************************************************)
(* The environment of the commands that the workers of the host daemon     *)
(* execute.  Every worker is an AutomaticGuestChannel, a                   *)
(* multiprocessing.Process of its own: os.environ is per worker.           *)
(***************************************************************************)

\* GuestChannel.guest_name of the worker processes
Workers == <<G_a, G_b, G_1a>>

\* os.environ[...] = value in one process, were the workers threads of one
\* process
putenvShared(env, w, value) == [v \in DOMAIN env |-> value]

\* os.environ['NEGOTIATOR_GUEST'] = value in the process of worker w
putenv(env, w, value) == [env EXCEPT ![w] = value]

\* the workers are forked from the daemon and inherit its environment
EnvInit ==
    /\ \E inherited \in {"unset", G_b} :
          environ = [w \in 1..Len(Workers) |-> inherited]
    /\ executing = {}
    /\ spawned = <<>>
    /\ CodecIdle
    /\ RpcIdle
    /\ HostIdle
    /\ CommandsIdle
    /\ GuestIdle
    /\ TimeoutIdle
    /\ StartIdle
    /\ ChanIdle
    /\ WakeIdle
    /\ LegacyIdle

\* execute() of worker w up to the end of self.prepare_environment()
PrepareEnvironment(w) ==
    /\ w \notin executing
    /\ Len(spawned) + Cardinality(executing) < MaxSpawns
    /\ environ' = putenv(environ, w, Workers[w])
    /\ executing' = executing \cup {w}
    /\ UNCHANGED <<spawned, exceptEnv>>

\* execute() of worker w from there: the executor spawns the command with
\* the environment of the worker's process
SpawnCommand(w) ==
    /\ w \in executing
    /\ spawned' = Append(spawned, [guest |-> Workers[w], saw |-> environ[w]])
    /\ executing' = executing \ {w}
    /\ UNCHANGED <<environ, exceptEnv>>

EnvNext ==
    \/ \E w \in 1..Len(Workers) : PrepareEnvironment(w)
    \/ \E w \in 1..Len(Workers) : SpawnCommand(w)

SpecEnv == EnvInit /\ [][EnvNext]_vars

(***************************************************************************)
(* Properties of the environment of commands.                              *)
(***************************************************************************)

\* C24: a worker that is about to spawn a command has its own guest name
\* in NEGOTIATOR_GUEST, and every command that was spawned saw the guest
\* name of the channel that handled the request.
C24_NegotiatorGuest ==
    /\ \A w \in executing : environ[w] = Workers[w]
    /\ \A k \in 1..Len(spawned) : spawned[k].saw = spawned[k].guest

\* the worker of a prepared its environment, the worker of b prepared its
\* own and spawned its command, and then the command of a was spawned
C24_Witness ==
    /\ Len(spawned) = 2
    /\ spawned[1] = [guest |-> G_b, saw |-> G_b]
    /\ spawned[2] = [guest |-> G_a, saw |-> G_a]
    /\ environ[1] = G_a
    /\ environ[2] = G_b

(***************************************************************************)
(* The start of the guest agent: find_character_device and the open of     *)
(* GuestAgent.__init__, with and without retry_open.                       *)
(***************************************************************************)

S_dev == <<"/", "d", "e", "v", "/">>
S_vport0p1 == <<"v", "p", "o", "r", "t", "0", "p", "1">>
S_vport0p2 == <<"v", "p", "o", "r", "t", "0", "p", "2">>
S_vport1p1 == <<"v", "p", "o", "r", "t", "1", "p", "1">>
S_console == <<"c", "o", "n", "s", "o", "l", "e", "\n">>

\* errno.EBUSY and another errno of open (EACCES)
EBUSY == 16
EACCES == 13

\* an entry of /sys/class/virtio-ports: whether <entry>/name is a regular
\* file, and what it holds
Port(entry, name_file, contents) ==
    [entry |-> entry, name_file |-> name_file, contents |-> contents]

\* the name file of a port as sysfs gives it: the name and a newline
NameOf(channel) == channel \o <<"\n">>

\* /sys/class/virtio-ports as os.listdir gives it, or no such directory
VirtioPorts ==
    << \* 1: the directory does not exist
       [exists |-> FALSE, ports |-> <<>>],
       \* 2: no ports
       [exists |-> TRUE, ports |-> <<>>],
       \* 3: the two ports of a Negotiator guest
       [exists |-> TRUE,
        ports |-> <<Port(S_vport0p1, TRUE, NameOf(GUEST_TO_HOST_CHANNEL_NAME)),
                    Port(S_vport0p2, TRUE, NameOf(HOST_TO_GUEST_CHANNEL_NAME))>>],
       \* 4: an entry without name file and a port of another name before
       \*    the host-to-guest port
       [exists |-> TRUE,
        ports |-> <<Port(S_vport0p1, FALSE, <<>>),
                    Port(S_vport1p1, TRUE, S_console),
                    Port(S_vport0p2, TRUE, NameOf(HOST_TO_GUEST_CHANNEL_NAME))>>],
       \* 5: two ports of the same name
       [exists |-> TRUE,
        ports |-> <<Port(S_vport0p2, TRUE, NameOf(HOST_TO_GUEST_CHANNEL_NAME)),
                    Port(S_vport0p1, TRUE, NameOf(HOST_TO_GUEST_CHANNEL_NAME)),
                    Port(S_vport1p1, TRUE, NameOf(GUEST_TO_HOST_CHANNEL_NAME))>>],
       \* 6: the only port of that name has no name file
       [exists |-> TRUE,
        ports |-> <<Port(S_vport0p2, FALSE, NameOf(HOST_TO_GUEST_CHANNEL_NAME)),
                    Port(S_vport1p1, TRUE, NameOf(GUEST_TO_HOST_CHANNEL_NAME))>>] >>

\* the result of find_character_device
Device(pathname) == [raised |-> "none", character_device |-> pathname]
NoDevice(exception) == [raised |-> exception, character_device |-> <<>>]

\* the for loop of find_character_device over the entries not yet visited
RECURSIVE Scan(_, _)
Scan(ports, port_name) ==
    IF ports = <<>> THEN NoDevice("Exception")
    ELSE IF /\ ports[1].name_file
            /\ strip(ports[1].contents) = port_name
         THEN Device(S_dev \o ports[1].entry)
         ELSE Scan(Tail(ports), port_name)

\* find_character_device, were the last matching entry selected
find_last_character_device(listing, port_name) ==
    LET matching == {k \in 1..Len(listing.ports) :
                        /\ listing.ports[k].name_file
                        /\ strip(listing.ports[k].contents) = port_name}
    IN  IF ~listing.exists THEN NoDevice("OSError")
        ELSE IF matching = {} THEN NoDevice("Exception")
        ELSE Device(S_dev \o listing.ports[
                 CHOOSE k \in matching : \A j \in matching : j <= k].entry)

\* find_character_device(port_name); os.listdir raises OSError when the
\* directory does not exist
find_character_device(listing, port_name) ==
    IF ~listing.exists THEN NoDevice("OSError")
    ELSE Scan(listing.ports, port_name)

NoException == [type |-> "none", errno |-> 0]

\* what the environment does to one call of open
OpenOutcomes == {"ok", "EBUSY", "EACCES"}

\* open(character_device, 'r+'): a failed open raises IOError in Python 2
\* and OSError in Python 3
open(version, outcome) ==
    IF outcome = "ok" THEN NoException
    ELSE [type |-> IF version = 2 THEN "IOError" ELSE "OSError",
          errno |-> IF outcome = "EBUSY" THEN EBUSY ELSE EACCES]

\* except OSError: in Python 2 IOError and OSError are two subclasses of
\* EnvironmentError, in Python 3 IOError is OSError
except_OSError(exception) == exception.type = "OSError"

\* the interpreter and the retry argument are given
StartInit ==
    /\ startPc = "main"
    /\ python \in {2, 3}
    /\ retry \in BOOLEAN
    /\ looked = [listing |-> 0, port_name |-> <<>>,
                 result |-> Device(<<>>)]
    /\ character_device = <<>>
    /\ attempts = 0
    /\ busy = 0
    /\ opened_at = 0
    /\ surfaced = NoException
    /\ CodecIdle
    /\ RpcIdle
    /\ HostIdle
    /\ CommandsIdle
    /\ GuestIdle
    /\ TimeoutIdle
    /\ EnvIdle
    /\ ChanIdle
    /\ WakeIdle
    /\ LegacyIdle

\* the character device is given by the caller
DeviceGiven ==
    /\ startPc = "main"
    /\ startPc' = "open"
    /\ character_device' = S_dev \o S_vport0p2
    /\ UNCHANGED <<python, retry, looked, attempts, busy, opened_at,
                   surfaced, exceptStart>>

\* character_device = find_character_device(channel_name), on a guest whose
\* /sys/class/virtio-ports is listing i
FindDevice(i) ==
    \E port_name \in {HOST_TO_GUEST_CHANNEL_NAME, GUEST_TO_HOST_CHANNEL_NAME} :
       LET result == find_character_device(VirtioPorts[i], port_name)
       IN  /\ startPc = "main"
           /\ looked' = [listing |-> i, port_name |-> port_name,
                         result |-> result]
           /\ IF result.raised = "none"
              THEN /\ startPc' = "open"
                   /\ character_device' = result.character_device
                   /\ UNCHANGED surfaced
              ELSE /\ startPc' = "failed"
                   /\ surfaced' = [type |-> result.raised, errno |-> 0]
                   /\ UNCHANGED character_device
           /\ UNCHANGED <<python, retry, attempts, busy, opened_at,
                          exceptStart>>

\* one call of open by GuestAgent.__init__: the builtin open when retry is
\* false, one pass of the while loop of retry_open when it is true
Open ==
    \E outcome \in OpenOutcomes :
       LET exception == open(python, outcome)
       IN  /\ startPc = "open"
           /\ attempts < MaxAttempts
           /\ attempts' = attempts + 1
           /\ busy' = IF outcome = "EBUSY" THEN busy + 1 ELSE busy
           /\ IF exception = NoException
              THEN /\ startPc' = "opened"
                   /\ opened_at' = attempts + 1
                   /\ UNCHANGED surfaced
              ELSE IF /\ retry
                      /\ except_OSError(exception)
                      /\ exception.errno = EBUSY
              THEN /\ startPc' = "sleep"
                   /\ UNCHANGED <<opened_at, surfaced>>
              ELSE /\ startPc' = "failed"
                   /\ surfaced' = exception
                   /\ UNCHANGED opened_at
           /\ UNCHANGED <<python, retry, looked, character_device,
                          exceptStart>>

\* time.sleep(1) of retry_open returns
RetrySleep ==
    /\ startPc = "sleep"
    /\ startPc' = "open"
    /\ UNCHANGED <<python, retry, looked, character_device, attempts, busy,
                   opened_at, surfaced, exceptStart>>

StartNext ==
    \/ DeviceGiven
    \/ \E i \in 1..Len(VirtioPorts) : FindDevice(i)
    \/ Open
    \/ RetrySleep

SpecStart == StartInit /\ [][StartNext]_vars

\* C25: busy-open retry.  With retry enabled no EBUSY reaches the caller
\* and after every EBUSY the open is attempted again; the handle is that of
\* the first open that succeeded; another error of open reaches the caller
\* at once; with retry disabled the first EBUSY reaches the caller.
C25_BusyOpenRetry ==
    /\ retry => surfaced.errno # EBUSY
    /\ (retry /\ busy > 0 /\ busy = attempts) => startPc \in {"sleep", "open"}
    /\ startPc = "opened" => opened_at = attempts
    /\ surfaced.errno = EACCES => startPc = "failed"
    /\ (~retry /\ busy > 0) =>
          /\ startPc = "failed"
          /\ surfaced.errno = EBUSY
          /\ attempts = 1

\* C28: find_character_device.  The result is /dev/<entry> for the first
\* entry of the directory that has a name file whose contents, stripped,
\* are the port name; entries without name file are passed over; when there
\* is no such entry an exception is raised.
C28_FindCharacterDevice ==
    looked.listing # 0 =>
       LET ports == VirtioPorts[looked.listing].ports
           matching == {k \in 1..Len(ports) :
                           /\ ports[k].name_file
                           /\ strip(ports[k].contents) = looked.port_name}
       IN  IF matching = {}
           THEN /\ looked.result.raised # "none"
                /\ startPc = "failed"
           ELSE /\ looked.result.raised = "none"
                /\ \E k \in matching :
                      /\ \A j \in matching : k <= j
                      /\ looked.result.character_device
                            = S_dev \o ports[k].entry
                      /\ character_device = S_dev \o ports[k].entry

\* a lookup that passed over an entry without name file and an entry of
\* another name, and one that had two entries of the name to choose from
C28_Witness ==
    /\ looked.listing = 4
    /\ looked.result.character_device = S_dev \o S_vport0p2
    /\ startPc = "opened"

C28_WitnessFirst ==
    /\ looked.listing = 5
    /\ looked.port_name = HOST_TO_GUEST_CHANNEL_NAME
    /\ looked.result.character_device = S_dev \o S_vport0p2

C28_WitnessNone ==
    /\ looked.listing = 6
    /\ looked.port_name = HOST_TO_GUEST_CHANNEL_NAME
    /\ startPc = "failed"

(***************************************************************************)
(* GuestChannel.__init__: the detection of the host-to-guest socket of a   *)
(* guest, the connection and the constructor of the super class.           *)
(***************************************************************************)

H2G(guest, layout, id) == File(guest, layout, id, "host-to-guest", TRUE)

\* channels directories of a host: the files of its guests
Hosts ==
    << \* 1: no guests
       <<>>,
       \* 2: guests a and b, 12.04 layout; b has only the guest-to-host
       \*    channel
       <<H2G(G_a, "12.04", 0), G2H(G_a, "12.04", 0), G2H(G_b, "12.04", 0)>>,
       \* 3: guests a and 1-a, 16.04 layout
       <<H2G(G_a, "16.04", 0), H2G(G_1a, "16.04", 0)>>,
       \* 4: guest a, 12.04 layout; the channel file is a regular file
       <<File(G_a, "12.04", 0, "host-to-guest", FALSE)>>,
       \* 5: guests a (domain id 1), b (id 2) and 1-a (id 3), 18.04 layout
       <<H2G(G_a, "18.04", 1), H2G(G_b, "18.04", 2), H2G(G_1a, "18.04", 3)>> >>

\* the pathname of a file below the channels directory
Pathname(file) == PathJoin(ChannelFile(file).root, ChannelFile(file).filename)

\* os.path.exists(pathname)
path_exists(files, pathname) ==
    \E k \in 1..Len(files) : Pathname(files[k]) = pathname

\* the file at a pathname that exists
FileAt(files, pathname) ==
    CHOOSE k \in 1..Len(files) : Pathname(files[k]) = pathname

new_style(guest) == PathJoin(S_domain \o guest, HOST_TO_GUEST_CHANNEL_NAME)

old_style(guest) == guest \o <<".">> \o HOST_TO_GUEST_CHANNEL_NAME

NotDetected == <<"?">>

\* lines 150-163: the pathname of the UNIX socket, or the failure of the
\* detection
detect(files, guest) ==
    IF path_exists(files, new_style(guest)) THEN new_style(guest)
    ELSE IF path_exists(files, old_style(guest)) THEN old_style(guest)
    ELSE NotDetected

\* what socket.connect(pathname) can do: something is listening on a
\* socket of a running guest or not; connecting to a regular file fails
ConnectResults(files, pathname) ==
    IF path_exists(files, pathname)
          /\ files[FileAt(files, pathname)].is_socket
    THEN {"accepted", "refused", "error"}
    ELSE {"refused", "error"}

ChanInit ==
    /\ ChanIdle
    /\ CodecIdle
    /\ RpcIdle
    /\ HostIdle
    /\ CommandsIdle
    /\ GuestIdle
    /\ TimeoutIdle
    /\ EnvIdle
    /\ StartIdle
    /\ WakeIdle
    /\ LegacyIdle

\* GuestChannel(guest_name=guest) on host h, up to the connection
NewChannel(h, guest) ==
    LET pathname == detect(Hosts[h], guest)
    IN  /\ channelPc = "new"
        /\ channel_host' = h
        /\ channel_guest' = guest
        /\ detected' = TRUE
        /\ IF pathname = NotDetected
           THEN /\ channelPc' = "raised"
                /\ channel_raised' = "GuestChannelInitializationError"
                /\ UNCHANGED unix_socket
           ELSE /\ channelPc' = "connect"
                /\ unix_socket' = pathname
                /\ UNCHANGED channel_raised
        /\ UNCHANGED <<connect_result, peer, channels_made, exceptChan>>

\* GuestChannel(guest_name, unix_socket) of a worker of the daemon on host
\* h, for file k that find_available_channels gave
NewWorkerChannel(h, k) ==
    /\ channelPc = "new"
    /\ Hosts[h][k].channel = "guest-to-host"
    /\ channel_host' = h
    /\ channel_guest' = Hosts[h][k].guest
    /\ detected' = FALSE
    /\ unix_socket' = Pathname(Hosts[h][k])
    /\ channelPc' = "connect"
    /\ UNCHANGED <<connect_result, peer, channel_raised, channels_made,
                   exceptChan>>

\* lines 166-171: every exception of connect becomes
\* GuestChannelInitializationError
Connect ==
    /\ channelPc = "connect"
    /\ \E result \in ConnectResults(Hosts[channel_host], unix_socket) :
       /\ connect_result' = result
       /\ IF result = "accepted"
          THEN /\ channelPc' = "super"
               /\ peer' = FileAt(Hosts[channel_host], unix_socket)
               /\ UNCHANGED channel_raised
          ELSE /\ channelPc' = "raised"
               /\ channel_raised' = "GuestChannelInitializationError"
               /\ UNCHANGED peer
       /\ UNCHANGED <<channel_host, channel_guest, detected, unix_socket,
                      channels_made, exceptChan>>

\* lines 175-176: NegotiatorInterface.__init__ lists the directory of the
\* builtin commands
Super ==
    /\ channelPc = "super"
    /\ IF builtin_commands.exists
       THEN /\ channelPc' = "connected"
            /\ UNCHANGED channel_raised
       ELSE /\ channelPc' = "raised"
            /\ channel_raised' = "OSError"
    /\ UNCHANGED <<channel_host, channel_guest, detected, unix_socket,
                   connect_result, peer, channels_made, exceptChan>>

\* the next action of the command line, or the next worker of the daemon,
\* constructs a channel of its own
NextChannel ==
    /\ channelPc \in {"connected", "raised"}
    /\ channels_made < MaxChannels
    /\ channels_made' = channels_made + 1
    /\ channelPc' = "new"
    /\ channel_host' = 0
    /\ channel_guest' = <<>>
    /\ detected' = FALSE
    /\ unix_socket' = <<>>
    /\ connect_result' = "none"
    /\ peer' = 0
    /\ channel_raised' = "none"
    /\ UNCHANGED exceptChan

ChanNext ==
    \/ \E h \in 1..Len(Hosts), guest \in {G_a, G_b, G_1a} : NewChannel(h, guest)
    \/ \E h \in 1..Len(Hosts) : \E k \in 1..Len(Hosts[h]) : NewWorkerChannel(h, k)
    \/ Connect
    \/ Super
    \/ NextChannel

SpecChan == ChanInit /\ [][ChanNext]_vars

\* the host-to-guest channel files of a guest on a host
HostToGuestFiles(h, guest) ==
    {k \in 1..Len(Hosts[h]) : /\ Hosts[h][k].guest = guest
                              /\ Hosts[h][k].channel = "host-to-guest"}

\* C26: a GuestChannel constructed for a guest is connected to the
\* host-to-guest socket of that guest or the constructor raises
\* GuestChannelInitializationError; a guest without host-to-guest socket
\* and a refused connection both end in that exception.
C26_ConnectedOrInitializationError ==
    /\ channel_raised \in {"none", "GuestChannelInitializationError"}
    /\ (detected /\ channelPc \in {"super", "connected"}) =>
          peer \in HostToGuestFiles(channel_host, channel_guest)
    /\ (detected /\ HostToGuestFiles(channel_host, channel_guest) = {}) =>
          /\ channelPc = "raised"
          /\ channel_raised = "GuestChannelInitializationError"
    /\ connect_result = "refused" =>
          /\ channelPc = "raised"
          /\ channel_raised = "GuestChannelInitializationError"

(***************************************************************************)
(* GuestAgent.raw_readline and WaitForRead against the character device:   *)
(* when lines become readable, which process SIGIO is sent to, and what    *)
(* each readline() returns.                                                *)
(***************************************************************************)

\* a line the host wrote to the channel
S_line == <<"l", "\n">>

\* multiprocessing.Process.start(): the child exists, run() has not yet
\* called signal.signal; no signal is pending
Waiter == [state |-> "forked", sigio |-> FALSE, sigterm |-> FALSE]

\* the kernel sends SIGIO to the process F_SETOWN names, if it still exists
raise_sigio_if_handled(ws, owner) ==
    IF owner # 0 /\ ws[owner].state = "waiting"
    THEN [ws EXCEPT ![owner] = [@ EXCEPT !.sigio = TRUE]]
    ELSE ws
raise_sigio(ws, owner) ==
    IF owner # 0 /\ ws[owner].state # "exited"
    THEN [ws EXCEPT ![owner] = [@ EXCEPT !.sigio = TRUE]]
    ELSE ws

\* Process.terminate(): SIGTERM is sent to the helper, if it still exists
waiter_terminate(ws) ==
    IF ws[Len(ws)].state # "exited"
    THEN [ws EXCEPT ![Len(ws)] = [@ EXCEPT !.sigterm = TRUE]]
    ELSE ws

\* conn_handle.readline(): the readable line, or the empty string when the
\* host is not connected; with the host connected and nothing to read the
\* call blocks
readline(dev) == IF dev = "line" THEN S_line ELSE <<>>

\* the test "if data:"
if_always(d) == TRUE
if_data(d) == d # <<>>

WakeInit ==
    /\ rlPc = "call"
    /\ device \in {"disconnected", "connected"}
    /\ fd_owner = 0
    /\ waiters = <<>>
    /\ data = <<>>
    /\ rl_leaving = "none"
    /\ arrived_at = "none"
    /\ CodecIdle /\ RpcIdle /\ HostIdle /\ CommandsIdle /\ GuestIdle
    /\ TimeoutIdle /\ EnvIdle /\ StartIdle /\ ChanIdle
    /\ LegacyIdle

\* the host opens its end of the channel: the port raises SIGIO
HostConnects ==
    /\ device = "disconnected"
    /\ device' = "connected"
    /\ waiters' = raise_sigio(waiters, fd_owner)
    /\ UNCHANGED <<rlPc, fd_owner, data, rl_leaving, arrived_at, exceptWake>>

\* the host closes its end of the channel: the port raises SIGIO
HostDisconnects ==
    /\ device = "connected"
    /\ device' = "disconnected"
    /\ waiters' = raise_sigio(waiters, fd_owner)
    /\ UNCHANGED <<rlPc, fd_owner, data, rl_leaving, arrived_at, exceptWake>>

\* a line written by the host becomes readable: the port raises SIGIO
LineArrives ==
    /\ device = "connected"
    /\ device' = "line"
    /\ arrived_at' = rlPc
    /\ waiters' = raise_sigio(waiters, fd_owner)
    /\ UNCHANGED <<rlPc, fd_owner, data, rl_leaving, exceptWake>>

\* raw_readline is called by read() on behalf of the main loop
CallRawReadline ==
    /\ rlPc \in {"call", "returned"}
    /\ rlPc' = "read1"
    /\ arrived_at' = IF device = "line" THEN "call" ELSE "none"
    /\ UNCHANGED <<device, fd_owner, waiters, data, rl_leaving, exceptWake>>

\* lines 92-111: the first readline() of a round; on an empty read O_ASYNC
\* is set, the helper object is made and GracefulShutdown is entered
Read1 ==
    /\ rlPc = "read1"
    /\ device # "connected"
    /\ if_data(readline(device)) \/ Len(waiters) < MaxHelpers
    /\ data' = readline(device)
    /\ device' = IF device = "line" THEN "connected" ELSE device
    /\ rlPc' = IF if_data(readline(device)) THEN "returned" ELSE "start"
    /\ UNCHANGED <<fd_owner, waiters, rl_leaving, arrived_at, exceptWake>>

\* line 121: waiter.start()
WaiterStart ==
    /\ rlPc = "start"
    /\ waiters' = Append(waiters, Waiter)
    /\ rlPc' = "setown"
    /\ UNCHANGED <<device, fd_owner, data, rl_leaving, arrived_at, exceptWake>>

\* line 123: fcntl(F_SETOWN, waiter.pid)
SetOwn ==
    /\ rlPc = "setown"
    /\ fd_owner' = Len(waiters)
    /\ rlPc' = "read2"
    /\ UNCHANGED <<device, waiters, data, rl_leaving, arrived_at, exceptWake>>

\* lines 127-129: the readline() after F_SETOWN
Read2 ==
    /\ rlPc = "read2"
    /\ device # "connected"
    /\ data' = readline(device)
    /\ device' = IF device = "line" THEN "connected" ELSE device
    /\ rlPc' = IF if_data(readline(device)) THEN "finally" ELSE "join"
    /\ rl_leaving' = IF if_data(readline(device)) THEN "break" ELSE "none"
    /\ UNCHANGED <<fd_owner, waiters, arrived_at, exceptWake>>

\* line 132: waiter.join() returns once the helper has exited
WaiterJoin ==
    /\ rlPc = "join"
    /\ waiters[Len(waiters)].state = "exited"
    /\ rlPc' = "read3"
    /\ UNCHANGED <<device, fd_owner, waiters, data, rl_leaving, arrived_at,
                   exceptWake>>

\* lines 134-136: the readline() after the helper has exited
Read3 ==
    /\ rlPc = "read3"
    /\ device # "connected"
    /\ data' = readline(device)
    /\ device' = IF device = "line" THEN "connected" ELSE device
    /\ rlPc' = "finally"
    /\ rl_leaving' = IF if_data(readline(device)) THEN "break" ELSE "none"
    /\ UNCHANGED <<fd_owner, waiters, arrived_at, exceptWake>>

\* lines 137-139 and the end of the with block: waiter.terminate(), then
\* the break leaves the loop (line 145 returns data) or the round ends
WaiterTerminate ==
    /\ rlPc = "finally"
    /\ waiters' = waiter_terminate(waiters)
    /\ rlPc' = IF rl_leaving = "break" THEN "returned" ELSE "sleep"
    /\ rl_leaving' = "none"
    /\ UNCHANGED <<device, fd_owner, data, arrived_at, exceptWake>>

\* line 143: time.sleep(1), then the next round of the loop
SleepOneSecond ==
    /\ rlPc = "sleep"
    /\ rlPc' = "read1"
    /\ UNCHANGED <<device, fd_owner, waiters, data, rl_leaving, arrived_at,
                   exceptWake>>

\* WaitForRead.run, line 155: signal.signal(SIGIO, self.signal_handler); a
\* pending signal is delivered before the helper runs on
WaiterInstall(h) ==
    /\ h \in 1..Len(waiters)
    /\ waiters[h].state = "forked"
    /\ ~waiters[h].sigio /\ ~waiters[h].sigterm
    /\ waiters' = [waiters EXCEPT ![h] = [@ EXCEPT !.state = "waiting"]]
    /\ UNCHANGED <<rlPc, device, fd_owner, data, rl_leaving, arrived_at,
                   exceptWake>>

\* a pending signal ends the helper: SIGIO by its default action before
\* line 155 and by sys.exit(0) of signal_handler (line 163) after it,
\* SIGTERM by the handler inherited from GracefulShutdown
WaiterExit(h) ==
    /\ h \in 1..Len(waiters)
    /\ waiters[h].state # "exited"
    /\ waiters[h].sigio \/ waiters[h].sigterm
    /\ waiters' = [waiters EXCEPT ![h] = [@ EXCEPT !.state = "exited"]]
    /\ UNCHANGED <<rlPc, device, fd_owner, data, rl_leaving, arrived_at,
                   exceptWake>>

\* the steps of the guest agent
AgentStep ==
    \/ CallRawReadline
    \/ Read1
    \/ WaiterStart
    \/ SetOwn
    \/ Read2
    \/ WaiterJoin
    \/ Read3
    \/ WaiterTerminate
    \/ SleepOneSecond

WakeNext ==
    \/ AgentStep
    \/ HostConnects
    \/ HostDisconnects
    \/ LineArrives
    \/ \E h \in 1..Len(waiters) : WaiterInstall(h)
    \/ \E h \in 1..Len(waiters) : WaiterExit(h)

\* the agent and its helpers are processes the kernel keeps scheduling; the
\* host is under no obligation
SpecWake ==
    /\ WakeInit
    /\ [][WakeNext]_vars
    /\ WF_vars(AgentStep)
    /\ \A h \in 1..MaxHelpers : WF_vars(WaiterInstall(h))
    /\ \A h \in 1..MaxHelpers : WF_vars(WaiterExit(h))

\* C34: raw_readline returns only what a readline() that was not empty
\* gave it, and after an empty readline() it is on its way round the loop,
\* not out of it
C34_NeverReturnsEmpty ==
    /\ rlPc = "returned" => (data = S_line /\ data # <<>>)
    /\ (rlPc \in {"start", "setown", "join", "sleep"}) => data = <<>>
    /\ (rlPc = "finally" /\ data = <<>>) => rl_leaving = "none"

C34_Witness ==
    /\ rlPc = "returned"
    /\ data = S_line
    /\ Len(waiters) = MaxHelpers

\* C33: a line that becomes readable while raw_readline runs is returned
\* by it, and raw_readline does not stay in join() while the line is
\* readable
C33_NoLostWakeUp ==
    /\ (device = "line") ~> (rlPc = "returned" /\ data = S_line)
    /\ (device = "line" /\ rlPc = "join") ~> (rlPc # "join")

C33_Witness ==
    /\ rlPc = "returned"
    /\ data = S_line
    /\ arrived_at = "join"

(***************************************************************************)
(* The single-file module negotiator_common.py: enter_main_loop and the    *)
(* attribute proxy __getattr__.                                            *)
(***************************************************************************)

S_command == <<"c", "o", "m", "m", "a", "n", "d">>

S_arguments == <<"a", "r", "g", "u", "m", "e", "n", "t", "s">>

S_keyword_arguments ==
    <<"k", "e", "y", "w", "o", "r", "d", "_", "a", "r", "g", "u", "m", "e",
      "n", "t", "s">>

S_send == <<"s", "e", "n", "d">>

S_Command == <<"C", "o", "m", "m", "a", "n", "d", " ">>

S_KeyError_success == <<"'", "s", "u", "c", "c", "e", "s", "s", "'">>

S_no == <<"n", "o">>

\* dict(command=name, arguments=args, keyword_arguments=kw)
LegacyRequest(name, args, kw) ==
    JObj(<<Member(S_command, JStr(name)), Member(S_arguments, JArr(args)),
           Member(S_keyword_arguments, JObj(kw))>>)

\* the frame fake_method writes for a call of the attribute name
fake_method(name, args, kw) == LegacyRequest(name, args, kw)

\* self.send(value): the class has no attribute send, so __getattr__ gives
\* fake_method for the name "send"
send(value) == <<fake_method(S_send, <<value>>, <<>>)>>

\* getattr(self, name, None): "method" for a method of the class, "data"
\* for an attribute set by __init__, "proxy" for every other name, which
\* __getattr__ answers with fake_method
LegacyAttr(name) ==
    IF name = S_write THEN "method"
    ELSE IF name = S_conn_label THEN "data"
    ELSE "proxy"

\* frames the peer can write: a request for a method that returns, for an
\* attribute that cannot be called, for a name the class does not have, for
\* a private name; a response that reports success and one that does not
LegacyFrames ==
    << LegacyRequest(S_write, <<JInt(1)>>, <<>>),
       LegacyRequest(S_conn_label, <<>>, <<>>),
       LegacyRequest(S_nosuch, <<>>, <<>>),
       LegacyRequest(S_private, <<>>, <<>>),
       Success(JNull),
       Failure(S_no) >>

\* the rest of fake_method once its response is read: response['success'],
\* response['result'], Exception(response['error'])
ProxyOutcome(response) ==
    IF ~HasKey(response, S_success) THEN Raised(S_KeyError_success)
    ELSE IF Truthy(Get(response, S_success))
         THEN Returned(GetOr(response, S_result, JNull), <<>>)
         ELSE Raised(GetOr(response, S_error, JStr(<<>>)).s)

LegacyInit ==
    /\ lgPc = "read"
    /\ lg_in = <<>>
    /\ lg_out = <<>>
    /\ lg_stack = "none"
    /\ lg_request = <<>>
    /\ lg_mark = 0
    /\ lg_sent = 0
    /\ CodecIdle /\ RpcIdle /\ HostIdle /\ CommandsIdle /\ GuestIdle
    /\ TimeoutIdle /\ EnvIdle /\ StartIdle /\ ChanIdle /\ WakeIdle

\* the peer frames LegacyFrames[i] and writes it
LegacyPeerWrite(i) ==
    /\ lg_sent < MaxFrames
    /\ lg_in' = Append(lg_in, LegacyFrames[i])
    /\ lg_sent' = lg_sent + 1
    /\ UNCHANGED <<lgPc, lg_out, lg_stack, lg_request, lg_mark, exceptLegacy>>

\* lines 189-202: one request is read and dispatched, up to the next
\* self.read().  A frame without command makes getattr(self, None, None)
\* raise TypeError outside the try block.
LegacyDispatch ==
    /\ lgPc = "read"
    /\ lg_in # <<>>
    /\ LET request == Head(lg_in)
           name == GetOr(request, S_command, JStr(<<>>)).s
           arguments == GetOr(request, S_arguments, JArr(<<>>)).a
           keyword_arguments == GetOr(request, S_keyword_arguments, JObj(<<>>)).o
       IN  /\ lg_in' = Tail(lg_in)
           /\ lg_request' = name
           /\ lg_mark' = Len(lg_out)
           /\ IF ~HasKey(request, S_command)
              THEN /\ lgPc' = "raised"
                   /\ UNCHANGED <<lg_out, lg_stack>>
              ELSE IF StartsWithUnderscore(name)
              THEN /\ lg_out' = lg_out \o send(Failure(S_Command \o name \o S_not_supported))
                   /\ lgPc' = "proxy"
                   /\ lg_stack' = "send"
              ELSE IF LegacyAttr(name) = "method"
              THEN /\ lg_out' = lg_out \o <<arguments[1], Success(JNull)>>
                   /\ lgPc' = "read"
                   /\ lg_stack' = "none"
              ELSE IF LegacyAttr(name) = "data"
              THEN /\ lg_out' = lg_out \o send(Failure(S_NotCallable))
                   /\ lgPc' = "proxy"
                   /\ lg_stack' = "send"
              ELSE /\ lg_out' = Append(lg_out, fake_method(name, arguments, keyword_arguments))
                   /\ lgPc' = "proxy"
                   /\ lg_stack' = "method"
    /\ UNCHANGED <<lg_sent, exceptLegacy>>

\* lines 213-217: fake_method reads its response.  An exception of the
\* fake_method called in the try block goes to the except clause (line
\* 198), one of self.send leaves enter_main_loop.
LegacyProxyRead ==
    /\ lgPc = "proxy"
    /\ lg_in # <<>>
    /\ LET outcome == ProxyOutcome(Head(lg_in))
       IN  /\ lg_in' = Tail(lg_in)
           /\ IF lg_stack = "method"
              THEN IF ~outcome.raised
                   THEN /\ lg_out' = Append(lg_out, Success(outcome.result))
                        /\ lgPc' = "read"
                        /\ lg_stack' = "none"
                   ELSE /\ lg_out' = lg_out \o send(Failure(outcome.msg))
                        /\ lgPc' = "proxy"
                        /\ lg_stack' = "send"
              ELSE /\ lgPc' = IF ~outcome.raised THEN "read" ELSE "raised"
                   /\ lg_stack' = "none"
                   /\ UNCHANGED lg_out
    /\ UNCHANGED <<lg_request, lg_mark, lg_sent, exceptLegacy>>

LegacyNext ==
    \/ \E i \in 1..Len(LegacyFrames) : LegacyPeerWrite(i)
    \/ LegacyDispatch
    \/ LegacyProxyRead

SpecLegacy == LegacyInit /\ [][LegacyNext]_vars

\* C38: after a request for a method that raises or for a command that is
\* not supported, exactly one frame has been written, it is a
\* {success: false, error} response, no request frame went to the peer, and
\* enter_main_loop is back at reading the next request.
C38_ErrorsThroughWriter ==
    lg_request \in {S_conn_label, S_nosuch, S_private} =>
       /\ lgPc = "read"
       /\ Len(lg_out) = lg_mark + 1
       /\ \A i \in (lg_mark + 1)..Len(lg_out) :
             /\ ~HasKey(lg_out[i], S_command)
             /\ HasKey(lg_out[i], S_success)
             /\ ~Get(lg_out[i], S_success).b

(***************************************************************************)
(* Calls of the command line tools over one channel: every invocation      *)
(* makes its own endpoint inside a TimeOut scope, and the channel outlives *)
(* the endpoints (the variables are those of the request/response          *)
(* protocol; callerPc is "timed_out" between a TimeOutError and the next   *)
(* invocation).                                                            *)
(***************************************************************************)

\* the alarm of the TimeOut scope runs out while call_remote_method is
\* blocked in self.read() with nothing to read: TimeOutError leaves the
\* call and the invocation; nothing is taken from the channel
CallTimeOut ==
    /\ callerPc = "waiting"
    /\ Len(outcomes) < Len(calls)
    /\ s2c = <<>>
    /\ outcomes' = Append(outcomes, [got |-> JNull, kind |-> "TimeOutError", v |-> JNull])
    /\ callerPc' = "timed_out"
    /\ UNCHANGED <<c2s, s2c, c2sClosed, serverPc, calls, served, exceptRpc>>

\* the next invocation: GuestChannel(guest_name) or
\* GuestAgent(character_device) opens the same channel again; the
\* constructors read nothing and discard nothing
FreshEndpoint ==
    /\ callerPc = "timed_out"
    /\ callerPc' = "idle"
    /\ UNCHANGED <<c2s, s2c, c2sClosed, serverPc, calls, outcomes, served,
                   exceptRpc>>

FreshNext ==
    \/ \E i \in 1..Len(Calls) : Call(i)
    \/ CallReturn
    \/ CallTimeOut
    \/ FreshEndpoint
    \/ Serve

SpecFresh == RpcInit /\ [][FreshNext]_vars

\* C32: a call of list_commands or execute that is made after an earlier
\* call was left by TimeOutError ends with the response the server produced
\* for its own request.
C32_FreshEndpointOwnResponse ==
    \A k \in 1..Len(outcomes) :
       (/\ outcomes[k].kind # "TimeOutError"
        /\ \E j \in 1..(k - 1) : outcomes[j].kind = "TimeOutError"
        /\ \A j \in 1..Len(calls) :
              Get(calls[j], S_method).s \in {S_list_commands, S_execute})
       => /\ k <= Len(served)
          /\ outcomes[k].got = served[k].response

====
